---- MODULE Spec2Model ----
(***************************************************************************)
(* TDH Agency application assistant (src/tdh_agent.py): the turn driver    *)
(* continue_conversation / initialize_conversation over the process-wide   *)
(* session map conversation_states, the stage logic functions registered   *)
(* in execute_node, and the helpers they call.                             *)
(*                                                                         *)
(* A user text is one of the strings of Texts.  The code inspects a text   *)
(* only through substring tests on its lower-cased form and through        *)
(* regular-expression searches; for the texts of Texts the results of      *)
(* these tests are tabulated below (Needles, name_match, ...), each table  *)
(* obtained by evaluating the source expression on the text.               *)
(***************************************************************************)
EXTENDS Integers, Sequences, FiniteSets, TLC

VARIABLES conversation_states, prev_states, last_call, result, storage_dir,
          workers

vars ==
  <<conversation_states, prev_states, last_call, result, storage_dir, workers>>

(***************************************************************************)
(* Bounds of the model.                                                    *)
(***************************************************************************)
\* a turn is only started on a thread whose history is shorter than this
MaxMessages == 4
\* number of turns the cooperative user of SpecCoop takes
CoopTurns == 12

\* src/tdh_agent.py:1049
max_iterations == 3

ThreadIds == {"thread_1", "thread_2"}

(***************************************************************************)
(* User texts and the results of the code's text tests on them.            *)
(***************************************************************************)
FullInfo == "I'm Jo Bloggs jo@x.com 07123456789"

Texts ==
  { "hello", FullInfo, FullInfo \o " dancer", FullInfo \o " singer",
    FullInfo \o " dancer who sings", "dancer who sings", "singer",
    "I love to perform", "yes", "no", "my_cv.pdf", "my_cv.txt",
    "https://youtu.be/abcdefghijk", "https://tiktok.com/@user/video/123",
    "https://www.spotlight.com/1234", "all of them",
    "My name is Al Smith", "al@y.org", "phone: +44 7700 900123",
    "profile: https://www.spotlight.com/9876",
    "Here is my resume in docx format", "I have a Word document with my CV",
    "I forgot my password", "CV in HTML format", "",
    "https://vimeo.com/123456789", "https://youtube.com",
    "see youtu.be/abcdefghijk and vimeo.com/1",
    "my showreel is on my website", "I am an actor", "mover" }

\* the phrases p of the code's phrase lists for which `p in text.lower()`
Needles(text) ==
  CASE text = FullInfo \o " dancer" -> {"dancer", "dance"}
    [] text = FullInfo \o " singer" -> {"singer", "sing"}
    [] text = FullInfo \o " dancer who sings" ->
         {"dancer who sings", "dancer", "dance", "sing"}
    [] text = "dancer who sings" ->
         {"dancer who sings", "dancer", "dance", "sing"}
    [] text = "singer" -> {"singer", "sing"}
    [] text = "I love to perform" -> {"perform"}
    [] text = "yes" -> {"yes"}
    [] text = "no" -> {"no"}
    [] text = "my_cv.pdf" -> {"pdf", ".pdf", "cv"}
    [] text = "my_cv.txt" -> {"cv"}
    [] text = "https://tiktok.com/@user/video/123" -> {"video"}
    [] text = "profile: https://www.spotlight.com/9876" -> {"file"}
    [] text = "Here is my resume in docx format" -> {"doc", "docx", "resume"}
    [] text = "I have a Word document with my CV" ->
         {"cv", "doc", "document", "i have", "word"}
    [] text = "I forgot my password" -> {"word"}
    [] text = "CV in HTML format" -> {"cv"}
    [] text = "my showreel is on my website" -> {"reel", "showreel"}
    [] text = "I am an actor" -> {"act", "actor"}
    [] text = "mover" -> {"mover"}
    [] OTHER -> {}

\* `needle in text.lower()`
contains_lower(needle, text) == needle \in Needles(text)

\* any(p in text.lower() for p in phrases)
any_in_lower(phrases, text) == \E p \in phrases : contains_lower(p, text)

HasFullInfo(text) ==
  text \in { FullInfo, FullInfo \o " dancer", FullInfo \o " singer",
             FullInfo \o " dancer who sings" }

\* group(1) of the first name pattern that matches, "" when none does
name_match(text) ==
  CASE HasFullInfo(text) -> "Jo Bloggs"
    [] text = "My name is Al Smith" -> "Al Smith"
    [] OTHER -> ""

\* group(0) of the email pattern, "" when it does not match
email_match(text) ==
  CASE HasFullInfo(text) -> "jo@x.com"
    [] text = "al@y.org" -> "al@y.org"
    [] OTHER -> ""

\* group(1) of the first phone pattern that matches, "" when none does;
\* [\d\s-]{8,} also takes the blank that follows the digits
phone_match(text) ==
  CASE text = FullInfo -> "07123456789"
    [] HasFullInfo(text) /\ text # FullInfo -> "07123456789 "
    [] text = "phone: +44 7700 900123" -> "+44 7700 900123"
    [] OTHER -> ""

\* group(1) of the cue + spotlight URL pattern of extract_applicant_info
spotlight_cue_match(text) ==
  IF text = "profile: https://www.spotlight.com/9876"
  THEN "https://www.spotlight.com/9876" ELSE ""

\* group(0) of the spotlight.com pattern of collect_spotlight_link
spotlight_link_match(text) ==
  CASE text = "https://www.spotlight.com/1234" -> text
    [] text = "profile: https://www.spotlight.com/9876" ->
         "https://www.spotlight.com/9876"
    [] OTHER -> ""

\* re.search(youtube_pattern, content) or re.search(vimeo_pattern, content)
video_link_match(text) ==
  text \in { "https://youtu.be/abcdefghijk", "https://vimeo.com/123456789",
             "see youtu.be/abcdefghijk and vimeo.com/1" }

\* any(re.search(pattern, content_lower) for pattern in youtube_patterns)
youtube_patterns_match(text) ==
  text \in { "https://youtu.be/abcdefghijk", "https://youtube.com",
             "see youtu.be/abcdefghijk and vimeo.com/1" }

\* any(re.search(pattern, content_lower) for pattern in vimeo_patterns)
vimeo_patterns_match(text) ==
  text \in { "https://vimeo.com/123456789",
             "see youtu.be/abcdefghijk and vimeo.com/1" }

(***************************************************************************)
(* Dictionaries.  A dict with string keys is a function on its key set;    *)
(* requirements_collected, whose iteration order the code relies on, is a  *)
(* sequence of <<key, collected>> entries in insertion order.              *)
(***************************************************************************)
EmptyDict == [k \in {} |-> ""]

DictPut(d, key, value) ==
  [k \in (DOMAIN d) \cup {key} |-> IF k = key THEN value ELSE d[k]]

\* `key in d and d[key]` / `key not in d or not d[key]` negated
DictTruthy(d, key) == key \in DOMAIN d /\ d[key] # ""

HumanMessage(content) == [type |-> "human", content |-> content]
AIMessage(content) == [type |-> "ai", content |-> content]

LLM_RESPONSE == "<llm response>"

(***************************************************************************)
(* Helper functions of src/tdh_agent.py.                                   *)
(***************************************************************************)
\* one field, written whenever the pattern matched
extract_field_overwrite(info, key, matched) ==
  IF matched # "" THEN DictPut(info, key, matched) ELSE info

\* one field of extract_applicant_info: set only when absent or empty and
\* the pattern matched
extract_field(info, key, matched) ==
  IF ~DictTruthy(info, key) /\ matched # "" THEN DictPut(info, key, matched)
  ELSE info

extract_applicant_info(message, current_info) ==
  LET i1 == extract_field(current_info, "name", name_match(message))
      i2 == extract_field(i1, "email", email_match(message))
      i3 == extract_field(i2, "phone", phone_match(message))
  IN  extract_field(i3, "spotlight", spotlight_cue_match(message))

\* a call that updates the caller's mapping instead of a copy
call_extract_applicant_info_no_copy(message, current_info) ==
  LET updated_info == extract_applicant_info(message, current_info)
  IN  [current_info |-> updated_info, returned |-> updated_info]

\* a call of extract_applicant_info: the caller's mapping after the call
\* (the function works on current_info.copy()) and the mapping returned
call_extract_applicant_info(message, current_info) ==
  LET updated_info == extract_applicant_info(message, current_info)
  IN  [current_info |-> current_info, returned |-> updated_info]

\* ErrorHandler.safe_extract_info: current_info is returned when the import
\* or the extractor raises
safe_extract_info(message, current_info, extract_raises) ==
  IF extract_raises
  THEN [current_info |-> current_info, returned |-> <<current_info>>, raised |-> FALSE]
  ELSE [current_info |-> call_extract_applicant_info(message, current_info).current_info,
        returned |-> <<call_extract_applicant_info(message, current_info).returned>>,
        raised |-> FALSE]

ReelTypes == {"dance_reel", "vocal_reel", "acting_reel", "movement_reel"}

\* material_type.replace("_", " ").title()
title_name(material_type) ==
  CASE material_type = "cv" -> "Cv"
    [] material_type = "dance_reel" -> "Dance Reel"
    [] material_type = "vocal_reel" -> "Vocal Reel"
    [] material_type = "acting_reel" -> "Acting Reel"
    [] material_type = "movement_reel" -> "Movement Reel"
    [] OTHER -> material_type

validate_material(material_type, content) ==
  IF material_type = "cv"
  THEN IF any_in_lower({"pdf", "word", ".doc", ".docx"}, content)
       THEN [valid |-> TRUE,
             feedback |-> "Great! Your CV in PDF/Word format is noted."]
       ELSE [valid |-> FALSE,
             feedback |-> "Please note that your CV must be in PDF or Word format only. Do you have your CV in one of these formats?"]
  ELSE IF material_type \in ReelTypes
  THEN IF video_link_match(content)
       THEN [valid |-> TRUE,
             feedback |-> "Perfect! I've noted your "
                            \o title_name(material_type) \o "."]
       ELSE [valid |-> FALSE,
             feedback |-> "Please provide a direct YouTube or Vimeo link for your "
                            \o title_name(material_type)
                            \o ". Other platforms or downloadable files are not accepted."]
  ELSE [valid |-> FALSE,
        feedback |-> "I couldn't validate this material. Please ensure it meets the requirements."]

(***************************************************************************)
(* MaterialValidator of src/validators.py.                                 *)
(***************************************************************************)
validate_cv(content) ==
  IF any_in_lower({"pdf", "doc", "docx", "word", ".pdf", ".doc", ".docx"}, content)
  THEN [valid |-> TRUE, feedback |-> "CV format accepted"]
  ELSE IF any_in_lower({"attachment", "attached", "file", "document",
                        "resume", "cv"}, content)
  THEN [valid |-> TRUE, feedback |-> "CV submission noted"]
  ELSE [valid |-> FALSE, feedback |-> "CV must be in PDF or Word format"]

\* the Vimeo patterns are tried before the YouTube patterns
validate_video_link_vimeo_first(content, material_type) ==
  IF vimeo_patterns_match(content)
  THEN [valid |-> TRUE, feedback |-> material_type \o " link accepted (Vimeo)"]
  ELSE IF youtube_patterns_match(content)
  THEN [valid |-> TRUE, feedback |-> material_type \o " link accepted (YouTube)"]
  ELSE IF any_in_lower({"reel", "video", "demo", "showreel", "footage"}, content)
  THEN [valid |-> FALSE,
        feedback |-> "Please provide a direct YouTube or Vimeo link for your "
                       \o material_type]
  ELSE [valid |-> FALSE,
        feedback |-> material_type \o " must be a YouTube or Vimeo link"]

validate_video_link(content, material_type) ==
  IF youtube_patterns_match(content)
  THEN [valid |-> TRUE, feedback |-> material_type \o " link accepted (YouTube)"]
  ELSE IF vimeo_patterns_match(content)
  THEN [valid |-> TRUE, feedback |-> material_type \o " link accepted (Vimeo)"]
  ELSE IF any_in_lower({"reel", "video", "demo", "showreel", "footage"}, content)
  THEN [valid |-> FALSE,
        feedback |-> "Please provide a direct YouTube or Vimeo link for your "
                       \o material_type]
  ELSE [valid |-> FALSE,
        feedback |-> material_type \o " must be a YouTube or Vimeo link"]

(***************************************************************************)
(* Sessions (AgentState).  None and the tri-state flags are the strings    *)
(* "None", "True", "False".                                                *)
(***************************************************************************)
DancerRequirements ==
  << <<"cv", FALSE>>, <<"dance_reel", FALSE>>,
     <<"vocal_reel", FALSE>>, <<"acting_reel", FALSE>> >>

SingerActorRequirements ==
  << <<"cv", FALSE>>, <<"vocal_reel", FALSE>>,
     <<"acting_reel", FALSE>>, <<"movement_reel", FALSE>> >>

initial_state ==
  [ messages |-> <<>>,
    applicant_info |-> EmptyDict,
    role_type |-> "None",
    current_stage |-> "welcome",
    requirements_collected |-> <<>>,
    ready_for_submission |-> FALSE,
    has_spotlight |-> "None",
    has_representation |-> "None",
    work_preferences |-> EmptyDict,
    materials_collected |-> EmptyDict ]

\* outcome of a stage logic: the state it leaves behind (the state dict is
\* mutated in place, so this is also what the caller's reference sees when
\* the function raises) and whether it raised
Returned(state) == [state |-> state, raised |-> FALSE]
Raised(state) == [state |-> state, raised |-> TRUE]

Append_message(state, message) ==
  [state EXCEPT !.messages = Append(@, message)]

\* state["messages"][-1]
last_message(state) == state.messages[Len(state.messages)]

\* index of the first entry of the checklist that is not collected, 0 if none
RECURSIVE first_open_from(_, _)
first_open_from(requirements, i) ==
  IF i > Len(requirements) THEN 0
  ELSE IF ~requirements[i][2] THEN i
  ELSE first_open_from(requirements, i + 1)

first_open(requirements) == first_open_from(requirements, 1)

(***************************************************************************)
(* Stage logic functions.  llm_ok tells whether the function's call of     *)
(* llm.invoke returns (TRUE) or raises (FALSE).                            *)
(***************************************************************************)
welcome_node(state, llm_ok) ==
  IF Len(state.messages) = 0
  THEN IF ~llm_ok THEN Raised(state)
       ELSE Returned([state EXCEPT
              !.messages = Append(@, AIMessage(LLM_RESPONSE)),
              !.current_stage = "basic_info",
              !.applicant_info = EmptyDict,
              !.requirements_collected = <<>>,
              !.ready_for_submission = FALSE])
  ELSE Returned(state)

mentioned_role(text) ==
  any_in_lower({"dancer", "singer", "actor", "perform", "dance", "sing", "act"},
               text)

collect_basic_info(state, llm_ok) ==
  IF Len(state.messages) = 0 THEN Raised(state)
  ELSE IF last_message(state).type = "human"
  THEN LET content == last_message(state).content
           updated_info == extract_applicant_info(content, state.applicant_info)
           s1 == [state EXCEPT !.applicant_info = updated_info]
           s2 == Append_message(s1, AIMessage(LLM_RESPONSE))
           has_all == /\ DictTruthy(updated_info, "name")
                      /\ DictTruthy(updated_info, "email")
                      /\ DictTruthy(updated_info, "phone")
       IN  IF ~llm_ok THEN Raised(s1)
           ELSE IF has_all /\ mentioned_role(content)
           THEN Returned([s2 EXCEPT !.current_stage = "role_classification"])
           ELSE Returned(s2)
  ELSE Returned(state)

\* indices of the HumanMessage entries of the history
human_indices(messages) ==
  {i \in 1..Len(messages) : messages[i].type = "human"}

Max(S) == CHOOSE m \in S : \A n \in S : n <= m

\* a detection that checks "dancer" before "dancer who sings"
detect_role_dancer_first(user_message) ==
  IF contains_lower("dancer", user_message) THEN "Dancer"
  ELSE IF contains_lower("dancer who sings", user_message)
  THEN "Dancer Who Sings"
  ELSE IF any_in_lower({"singer", "actor", "mover"}, user_message)
  THEN "Singer/Actor"
  ELSE "None"

detect_role(user_message) ==
  IF contains_lower("dancer who sings", user_message) THEN "Dancer Who Sings"
  ELSE IF contains_lower("dancer", user_message) THEN "Dancer"
  ELSE IF any_in_lower({"singer", "actor", "mover"}, user_message)
  THEN "Singer/Actor"
  ELSE "None"

classify_role(state, llm_ok) ==
  IF human_indices(state.messages) = {} THEN Returned(state)
  ELSE LET last_human == state.messages[Max(human_indices(state.messages))]
           role_type == detect_role(last_human.content)
           s1 == IF role_type = "None" THEN state
                 ELSE [state EXCEPT
                         !.role_type = role_type,
                         !.requirements_collected =
                            IF role_type \in {"Dancer", "Dancer Who Sings"}
                            THEN DancerRequirements
                            ELSE SingerActorRequirements]
           s2 == Append_message(s1, AIMessage(LLM_RESPONSE))
       IN  IF ~llm_ok THEN Raised(s1)
           ELSE IF role_type # "None"
           THEN Returned([s2 EXCEPT !.current_stage = "explain_requirements"])
           ELSE Returned(s2)

request_role_clarification(state, llm_ok) ==
  IF ~llm_ok THEN Raised(state)
  ELSE Returned(Append_message(state, AIMessage(LLM_RESPONSE)))

dancer_requirements(state, llm_ok) ==
  Returned([Append_message(state, AIMessage("<requirements: Dancer>"))
              EXCEPT !.current_stage = "spotlight_check"])

dancer_who_sings_requirements(state, llm_ok) ==
  Returned([Append_message(state, AIMessage("<requirements: Dancer Who Sings>"))
              EXCEPT !.current_stage = "spotlight_check"])

singer_actor_requirements(state, llm_ok) ==
  Returned([Append_message(state, AIMessage("<requirements: Singer/Actor>"))
              EXCEPT !.current_stage = "spotlight_check"])

YesPhrasesSpotlight == {"yes", "i have", "i do", "i'm on spotlight"}
NoPhrasesSpotlight == {"no", "i don't", "i don't have", "not on spotlight"}
YesPhrasesRepresentation == {"yes", "i have", "i do", "i'm represented"}
NoPhrasesRepresentation == {"no", "i don't", "i don't have", "not represented"}

spotlight_check(state, llm_ok) ==
  IF Len(state.messages) = 0 THEN Raised(state)
  ELSE IF last_message(state).type = "human"
  THEN LET user_message == last_message(state).content
       IN  IF any_in_lower(YesPhrasesSpotlight, user_message)
           THEN Returned(Append_message(
                  [state EXCEPT !.has_spotlight = "True"],
                  AIMessage("Great! Please provide your Spotlight profile link.")))
           ELSE IF any_in_lower(NoPhrasesSpotlight, user_message)
           THEN Returned(Append_message(
                  [state EXCEPT !.has_spotlight = "False"],
                  AIMessage("No problem! Let's move on to checking your current representation status.")))
           ELSE Returned(Append_message(state,
                  AIMessage("I need to know if you have a Spotlight profile. Please answer yes or no.")))
  ELSE Returned(state)

collect_spotlight_link(state, llm_ok) ==
  IF Len(state.messages) = 0 THEN Raised(state)
  ELSE IF last_message(state).type = "human"
  THEN LET matched == spotlight_link_match(last_message(state).content)
       IN  IF matched # ""
           THEN Returned(Append_message(
                  [state EXCEPT !.applicant_info = DictPut(@, "spotlight", matched)],
                  AIMessage("Perfect! I've noted your Spotlight link. Now let's check your current representation status.")))
           ELSE Returned(Append_message(state,
                  AIMessage("I couldn't find a valid Spotlight link. Please provide the direct URL to your Spotlight profile.")))
  ELSE Returned(state)

representation_check(state, llm_ok) ==
  IF Len(state.messages) = 0 THEN Raised(state)
  ELSE IF last_message(state).type = "human"
  THEN LET user_message == last_message(state).content
       IN  IF any_in_lower(YesPhrasesRepresentation, user_message)
           THEN Returned(Append_message(
                  [state EXCEPT !.has_representation = "True"],
                  AIMessage("I see you have current representation. Please tell me the agency name and what they represent you for.")))
           ELSE IF any_in_lower(NoPhrasesRepresentation, user_message)
           THEN Returned(Append_message(
                  [state EXCEPT !.has_representation = "False"],
                  AIMessage("No problem! Let's move on to your work preferences.")))
           ELSE Returned(Append_message(state,
                  AIMessage("I need to know if you currently have representation. Please answer yes or no.")))
  ELSE Returned(state)

collect_representation_details(state, llm_ok) ==
  IF Len(state.messages) = 0 THEN Raised(state)
  ELSE IF last_message(state).type = "human"
  THEN Returned(Append_message(
         [state EXCEPT !.applicant_info =
            DictPut(@, "current_agency", last_message(state).content)],
         AIMessage("Thank you for that information. Now let's discuss your work preferences.")))
  ELSE Returned(state)

work_preferences(state, llm_ok) ==
  IF ~llm_ok THEN Raised(state)
  ELSE Returned(Append_message(state, AIMessage(LLM_RESPONSE)))

dancer_materials(state, llm_ok) ==
  Returned([Append_message(state, AIMessage("<materials: Dancer>"))
              EXCEPT !.requirements_collected = DancerRequirements,
                     !.current_stage = "collect_requirements"])

\* singer_actor_materials with the checklist of dancer_materials
singer_actor_materials_dancer_list(state, llm_ok) ==
  Returned([Append_message(state, AIMessage("<materials: Singer/Actor>"))
              EXCEPT !.requirements_collected = DancerRequirements,
                     !.current_stage = "collect_requirements"])

singer_actor_materials(state, llm_ok) ==
  Returned([Append_message(state, AIMessage("<materials: Singer/Actor>"))
              EXCEPT !.requirements_collected = SingerActorRequirements,
                     !.current_stage = "collect_requirements"])

\* the prompt for the next open requirement after an accepted submission
next_requirement_text(feedback, next_requirement) ==
  IF next_requirement = "cv"
  THEN feedback \o "\n\nNow, please provide your CV. Remember, it must be in PDF or Word format only."
  ELSE IF next_requirement \in ReelTypes
  THEN feedback \o "\n\nNext, I need your " \o title_name(next_requirement)
         \o ". Please provide a direct YouTube or Vimeo link."
  ELSE feedback \o "\n\nNext, please provide your "
         \o title_name(next_requirement) \o "."

\* requirements[current_requirement] = True, with the bug of marking the
\* key after the current one
mark_collected_next(requirements, cur) ==
  LET i == IF cur < Len(requirements) THEN cur + 1 ELSE cur
  IN  [requirements EXCEPT ![i] = <<requirements[i][1], TRUE>>]

\* requirements[current_requirement] = True
mark_collected(requirements, cur) ==
  [requirements EXCEPT ![cur] = <<requirements[cur][1], TRUE>>]

\* an accepted submission that marks the key but stores no material
accept_submission_no_store(state, cur, user_message) ==
  [state EXCEPT !.requirements_collected = mark_collected(@, cur)]

\* an accepted submission that also sets ready_for_submission
accept_submission_sets_ready(state, cur, user_message) ==
  [state EXCEPT
     !.requirements_collected = mark_collected(@, cur),
     !.materials_collected =
        DictPut(@, state.requirements_collected[cur][1], user_message),
     !.ready_for_submission = TRUE]

\* the state updates of collect_requirements for an accepted submission:
\* mark the current requirement collected and store the raw text
accept_submission(state, cur, user_message) ==
  [state EXCEPT
     !.requirements_collected = mark_collected(@, cur),
     !.materials_collected =
        DictPut(@, state.requirements_collected[cur][1], user_message)]

\* a rejection that marks the open requirement collected all the same
reject_submission_skips_key(state, feedback) ==
  Append_message(
    [state EXCEPT !.requirements_collected = mark_collected(@, first_open(@))],
    AIMessage(feedback))

\* the branch of collect_requirements for a rejected submission: the
\* response text is the validator's feedback, no field is written
reject_submission(state, feedback) ==
  Append_message(state, AIMessage(feedback))

collect_requirements(state, llm_ok) ==
  IF Len(state.messages) = 0 THEN Raised(state)
  ELSE IF last_message(state).type = "human"
  THEN LET requirements == state.requirements_collected
           user_message == last_message(state).content
           cur == first_open(requirements)
       IN  IF cur # 0
           THEN LET current_requirement == requirements[cur][1]
                    v == validate_material(current_requirement, user_message)
                    s1 == accept_submission(state, cur, user_message)
                    marked == s1.requirements_collected
                    nxt == first_open(marked)
                IN  IF v.valid
                    THEN IF nxt # 0
                         THEN Returned(Append_message(s1,
                                AIMessage(next_requirement_text(v.feedback, marked[nxt][1]))))
                         ELSE Returned(Append_message(
                                [s1 EXCEPT !.current_stage = "research_questions"],
                                AIMessage(v.feedback \o "\n\nExcellent! You've provided all the required materials. Let me ask you a few final questions.")))
                    ELSE Returned(reject_submission(state, v.feedback))
           ELSE Returned(Append_message(
                  [state EXCEPT !.current_stage = "research_questions"],
                  AIMessage("You've already provided all the required materials. Let me ask you a few final questions.")))
  ELSE Returned(state)

continue_materials_collection(state, llm_ok) == Returned(state)

research_questions(state, llm_ok) ==
  IF ~llm_ok THEN Raised(state)
  ELSE Returned(Append_message(state, AIMessage(LLM_RESPONSE)))

final_questions(state, llm_ok) ==
  IF Len(state.messages) = 0 THEN Raised(state)
  ELSE IF last_message(state).type = "human"
  THEN Returned(Append_message(
         [state EXCEPT
            !.applicant_info =
               DictPut(@, "research_answers", last_message(state).content),
            !.ready_for_submission = TRUE],
         AIMessage("<final summary>")))
  ELSE Returned(state)

(***************************************************************************)
(* The turn driver.                                                        *)
(***************************************************************************)
determine_next_node(state) ==
  LET current_stage == state.current_stage
      role_type == state.role_type
  IN  CASE current_stage = "basic_info" -> "collect_basic_info"
        [] current_stage = "role_classification" -> "classify_role"
        [] current_stage = "explain_requirements" ->
             ( CASE role_type = "Dancer" -> "dancer_requirements"
                 [] role_type = "Dancer Who Sings" -> "dancer_who_sings_requirements"
                 [] role_type = "Singer/Actor" -> "singer_actor_requirements"
                 [] OTHER -> "request_role_clarification" )
        [] current_stage = "spotlight_check" -> "spotlight_check"
        [] current_stage = "collect_spotlight" -> "collect_spotlight_link"
        [] current_stage = "representation_check" -> "representation_check"
        [] current_stage = "collect_representation" -> "collect_representation_details"
        [] current_stage = "work_preferences" -> "work_preferences"
        [] current_stage = "materials_collection" ->
             ( IF role_type \in {"Dancer", "Dancer Who Sings"}
               THEN "dancer_materials" ELSE "singer_actor_materials" )
        [] current_stage = "collect_requirements" -> "collect_requirements"
        [] current_stage = "research_questions" -> "research_questions"
        [] current_stage = "final_questions" -> "final_questions"
        [] OTHER -> "END"

\* the keys of the node_functions table of execute_node
node_functions ==
  { "collect_basic_info", "classify_role", "request_role_clarification",
    "dancer_requirements", "dancer_who_sings_requirements",
    "singer_actor_requirements", "spotlight_check", "collect_spotlight_link",
    "representation_check", "collect_representation_details",
    "work_preferences", "dancer_materials", "singer_actor_materials",
    "collect_requirements", "continue_materials_collection",
    "research_questions", "final_questions" }

execute_node(node_name, state, llm_ok) ==
  CASE node_name = "collect_basic_info" -> collect_basic_info(state, llm_ok)
    [] node_name = "classify_role" -> classify_role(state, llm_ok)
    [] node_name = "request_role_clarification" ->
         request_role_clarification(state, llm_ok)
    [] node_name = "dancer_requirements" -> dancer_requirements(state, llm_ok)
    [] node_name = "dancer_who_sings_requirements" ->
         dancer_who_sings_requirements(state, llm_ok)
    [] node_name = "singer_actor_requirements" ->
         singer_actor_requirements(state, llm_ok)
    [] node_name = "spotlight_check" -> spotlight_check(state, llm_ok)
    [] node_name = "collect_spotlight_link" -> collect_spotlight_link(state, llm_ok)
    [] node_name = "representation_check" -> representation_check(state, llm_ok)
    [] node_name = "collect_representation_details" ->
         collect_representation_details(state, llm_ok)
    [] node_name = "work_preferences" -> work_preferences(state, llm_ok)
    [] node_name = "dancer_materials" -> dancer_materials(state, llm_ok)
    [] node_name = "singer_actor_materials" -> singer_actor_materials(state, llm_ok)
    [] node_name = "collect_requirements" -> collect_requirements(state, llm_ok)
    [] node_name = "continue_materials_collection" ->
         continue_materials_collection(state, llm_ok)
    [] node_name = "research_questions" -> research_questions(state, llm_ok)
    [] node_name = "final_questions" -> final_questions(state, llm_ok)
    [] OTHER -> Returned(state)

\* the k-th stage logic executed in a call finds llm.invoke working unless
\* k = fail_at (fail_at = 0: every call of llm.invoke returns)
llm_ok_at(fail_at, k) == fail_at # k

\* `while iterations < max_iterations` without the bound
loop_condition_unbounded(iterations) == iterations < max_iterations + 1

\* `while iterations < max_iterations`
loop_condition(iterations) == iterations < max_iterations

\* the while loop of continue_conversation from the given number of
\* iterations on; executed counts the stage logic functions run so far
\* a loop that never takes the `stage didn't change` break
stage_unchanged_ignored(current_state, original_stage) == FALSE

\* `current_state["current_stage"] == original_stage`
stage_unchanged(current_state, original_stage) ==
  current_state.current_stage = original_stage

\* one executed stage logic: its name and current_stage before and after
executed_node(next_node, original_stage, r) ==
  [node |-> next_node, stage_before |-> original_stage,
   stage_after |-> r.state.current_stage, raised |-> r.raised]

RECURSIVE run_loop(_, _, _, _)
run_loop(current_state, iterations, executed, fail_at) ==
  IF ~loop_condition(iterations)
  THEN [state |-> current_state, raised |-> FALSE, executed |-> executed,
        trace |-> <<>>]
  ELSE LET original_stage == current_state.current_stage
           next_node == determine_next_node(current_state)
       IN  IF next_node = "END"
           THEN [state |-> [current_state EXCEPT !.current_stage = "END"],
                 raised |-> FALSE, executed |-> executed, trace |-> <<>>]
           ELSE \* r is the outcome of the one execute_node call of the iteration
                CHOOSE outcome \in
                  { IF r.raised
                    THEN [state |-> r.state, raised |-> TRUE,
                          executed |-> executed + 1,
                          trace |-> <<executed_node(next_node, original_stage, r)>>]
                    ELSE IF stage_unchanged(r.state, original_stage)
                    THEN [state |-> r.state, raised |-> FALSE,
                          executed |-> executed + 1,
                          trace |-> <<executed_node(next_node, original_stage, r)>>]
                    ELSE [run_loop(r.state, iterations + 1, executed + 1, fail_at)
                            EXCEPT !.trace =
                              <<executed_node(next_node, original_stage, r)>> \o @]
                    : r \in { execute_node(next_node, current_state,
                                           llm_ok_at(fail_at, executed + 1)) } } :
                  TRUE

\* thread_id = "thread_1" of initialize_conversation
new_thread_id == "thread_1"

\* initialize_conversation: the store after the call and the call's outcome
initialize_conversation(store, llm_ok) ==
  LET r == welcome_node(initial_state, llm_ok)
      stored == [t \in (DOMAIN store) \cup {new_thread_id} |->
                   IF t = new_thread_id THEN r.state ELSE store[t]]
  IN  [store |-> stored,
       result |-> [raised |-> r.raised,
                   returned |-> IF r.raised THEN <<>> ELSE <<r.state>>,
                   executed |-> 1,
                   trace |-> <<executed_node("welcome_node",
                                             initial_state.current_stage, r)>>]]

\* continue_conversation: the store after the call and the call's outcome
continue_conversation(store, user_input, thread_id, fail_at) ==
  IF thread_id \notin DOMAIN store
  THEN initialize_conversation(store, llm_ok_at(fail_at, 1))
  ELSE LET current_state ==
             Append_message(store[thread_id], HumanMessage(user_input))
           r == run_loop(current_state, 0, 0, fail_at)
       IN  [store |-> [store EXCEPT ![thread_id] = r.state],
            result |-> [raised |-> r.raised,
                        returned |-> IF r.raised THEN <<>> ELSE <<r.state>>,
                        executed |-> r.executed,
                        trace |-> r.trace]]

(***************************************************************************)
(* The program: calls of initialize_conversation and continue_conversation *)
(* on the session map, with any user text and any outcome of llm.invoke.   *)
(***************************************************************************)
EmptyStore == [t \in {} |-> initial_state]

\* the storage directory of ConversationPersistence without any file
EmptyDir == [t \in {} |-> ""]

\* no worker is inside continue_conversation
NoWorkers == [w \in {} |-> ""]

NoCall == [op |-> "none", user_input |-> "", thread_id |-> "", fail_at |-> 0]

NoResult ==
  [raised |-> FALSE, returned |-> <<>>, executed |-> 0, trace |-> <<>>]

\* the user texts of the unrestricted specification
UserTexts ==
  { "hello", FullInfo \o " dancer", "singer", "yes" }

Init ==
  /\ conversation_states = EmptyStore
  /\ prev_states = EmptyStore
  /\ workers = NoWorkers
  /\ last_call = NoCall
  /\ result = NoResult
  /\ storage_dir = EmptyDir

InitializeConversation ==
  \E llm_ok \in BOOLEAN :
    LET c == initialize_conversation(conversation_states, llm_ok)
    IN  /\ conversation_states' = c.store
        /\ prev_states' = conversation_states
        /\ UNCHANGED workers
        /\ last_call' = [op |-> "initialize", user_input |-> "",
                         thread_id |-> new_thread_id,
                         fail_at |-> IF llm_ok THEN 0 ELSE 1]
        /\ result' = c.result
        /\ UNCHANGED storage_dir

ContinueConversation ==
  \E user_input \in UserTexts, thread_id \in ThreadIds,
     fail_at \in 0..max_iterations :
    LET c == continue_conversation(conversation_states, user_input,
                                   thread_id, fail_at)
    IN  /\ thread_id \in DOMAIN conversation_states =>
              Len(conversation_states[thread_id].messages) < MaxMessages
        /\ conversation_states' = c.store
        /\ prev_states' = conversation_states
        /\ UNCHANGED workers
        /\ last_call' = [op |-> "continue", user_input |-> user_input,
                         thread_id |-> thread_id, fail_at |-> fail_at]
        /\ result' = c.result
        /\ UNCHANGED storage_dir

Next == InitializeConversation \/ ContinueConversation

Spec == Init /\ [][Next]_vars

(***************************************************************************)
(* The cooperative user: after initialize_conversation every turn supplies *)
(* a text the current stage accepts, and llm.invoke never fails.           *)
(***************************************************************************)
\* number of user utterances in a history
human_count(messages) == Cardinality(human_indices(messages))

\* the texts of Texts that the stage of the session accepts
accepted_inputs(state) ==
  LET current_stage == state.current_stage
      open == first_open(state.requirements_collected)
  IN  CASE current_stage = "basic_info" ->
             { FullInfo \o " dancer", FullInfo \o " singer",
               FullInfo \o " dancer who sings" }
        [] current_stage = "role_classification" -> {"dancer who sings", "singer"}
        [] current_stage \in {"spotlight_check", "representation_check"} ->
             {"yes", "no"}
        [] current_stage = "collect_spotlight" -> {"https://www.spotlight.com/1234"}
        [] current_stage \in {"collect_representation", "work_preferences",
                              "materials_collection"} -> {"all of them"}
        [] current_stage = "collect_requirements" ->
             ( IF open # 0 /\ state.requirements_collected[open][1] = "cv"
               THEN {"my_cv.pdf"} ELSE {"https://youtu.be/abcdefghijk"} )
        [] current_stage \in {"research_questions", "final_questions"} ->
             {"hello", "all of them"}
        [] OTHER -> {}

CoopInitialize ==
  /\ conversation_states = EmptyStore
  /\ LET c == initialize_conversation(conversation_states, TRUE)
     IN  /\ conversation_states' = c.store
         /\ prev_states' = conversation_states
         /\ UNCHANGED workers
         /\ last_call' = [op |-> "initialize", user_input |-> "",
                          thread_id |-> new_thread_id, fail_at |-> 0]
         /\ result' = c.result
         /\ UNCHANGED storage_dir

CoopContinue ==
  /\ new_thread_id \in DOMAIN conversation_states
  /\ human_count(conversation_states[new_thread_id].messages) < CoopTurns
  /\ \E user_input \in accepted_inputs(conversation_states[new_thread_id]) :
       LET c == continue_conversation(conversation_states, user_input,
                                      new_thread_id, 0)
       IN  /\ conversation_states' = c.store
           /\ prev_states' = conversation_states
           /\ UNCHANGED workers
           /\ last_call' = [op |-> "continue", user_input |-> user_input,
                            thread_id |-> new_thread_id, fail_at |-> 0]
           /\ result' = c.result
           /\ UNCHANGED storage_dir

NextCoop == CoopInitialize \/ CoopContinue

SpecCoop == Init /\ [][NextCoop]_vars

(***************************************************************************)
(* Properties.                                                             *)
(***************************************************************************)
IsPrefix(s, t) == Len(s) <= Len(t) /\ \A i \in 1..Len(s) : s[i] = t[i]

\* the last call was continue_conversation on a thread that had a session
ContinuedExisting ==
  /\ last_call.op = "continue"
  /\ last_call.thread_id \in DOMAIN prev_states

\* C1: a session whose user has supplied an accepted input at each of
\* CoopTurns turns (more turns than the longest path of the stage graph
\* needs) has executed final_questions and is in the terminal stage.
C1_CooperativeUserReachesTerminal ==
  ( /\ new_thread_id \in DOMAIN conversation_states
    /\ human_count(conversation_states[new_thread_id].messages) >= CoopTurns )
  => /\ conversation_states[new_thread_id].current_stage = "END"
     /\ "research_answers" \in
           DOMAIN conversation_states[new_thread_id].applicant_info

\* C2: every call of continue_conversation executes at most 3 stage logic
\* functions.
C2_AtMostThreeStageLogics ==
  last_call.op = "continue" => result.executed <= 3

C2_Witness ==
  /\ ContinuedExisting
  /\ ~result.raised
  /\ result.executed = 3
  /\ result.returned[1].current_stage = "spotlight_check"

\* C3: for every stage logic registered in execute_node and every session,
\* a second invocation right after the first appends no assistant utterance
\* and does not change current_stage.
C3_StageLogicIdempotent ==
  \A t \in DOMAIN conversation_states : \A node_name \in node_functions :
    LET first == execute_node(node_name, conversation_states[t], TRUE)
        second == execute_node(node_name, first.state, TRUE)
    IN  (~first.raised /\ ~second.raised) =>
          /\ Len(second.state.messages) = Len(first.state.messages)
          /\ second.state.current_stage = first.state.current_stage

\* C4: no call of initialize_conversation or continue_conversation raises,
\* whatever the outcome of llm.invoke: each call returns a session.
C4_GenerationFailureDoesNotRaise ==
  last_call.op # "none" => (~result.raised /\ Len(result.returned) = 1)

\* C5: a completed continue_conversation call on an existing thread returns
\* a history that holds the user's utterance followed by at least one
\* assistant utterance, the last utterance being the assistant's.
C5_AssistantRepliesEveryTurn ==
  (ContinuedExisting /\ ~result.raised) =>
    LET h == result.returned[1].messages
        n == Len(prev_states[last_call.thread_id].messages)
    IN  /\ Len(h) >= n + 2
        /\ h[n + 1] = HumanMessage(last_call.user_input)
        /\ h[Len(h)].type = "ai"

\* C6: a completed continue_conversation call returns a history holding the
\* call's user text as a user utterance, appended right after the thread's
\* previous history, also for a thread_id that had no session.
C6_UserUtteranceAppended ==
  (last_call.op = "continue" /\ ~result.raised) =>
    LET h == result.returned[1].messages
    IN  IF last_call.thread_id \in DOMAIN prev_states
        THEN LET n == Len(prev_states[last_call.thread_id].messages)
             IN  Len(h) > n /\ h[n + 1] = HumanMessage(last_call.user_input)
        ELSE \E i \in 1..Len(h) : h[i] = HumanMessage(last_call.user_input)

\* C7: a continue_conversation call for thread_id A leaves the stored
\* session of every other thread_id unchanged, and the session it returns
\* is stored under A.
C7_OtherThreadsUntouched ==
  last_call.op = "continue" =>
    /\ \A b \in (DOMAIN prev_states) \ {last_call.thread_id} :
         b \in DOMAIN conversation_states
           /\ conversation_states[b] = prev_states[b]
    /\ ~result.raised =>
         /\ last_call.thread_id \in DOMAIN conversation_states
         /\ conversation_states[last_call.thread_id] = result.returned[1]

\* C8: the current_stage of every stored session is the terminal marker or
\* a value that determine_next_node resolves to a stage logic registered in
\* execute_node.
C8_StageInClosedSet ==
  \A t \in DOMAIN conversation_states :
    \/ conversation_states[t].current_stage = "END"
    \/ determine_next_node(conversation_states[t]) \in node_functions

\* C9: across a continue_conversation call (for any thread_id) the history
\* of every existing session before the call is a prefix of its history
\* after the call.
C9_HistoryAppendOnly ==
  last_call.op = "continue" =>
    \A t \in DOMAIN prev_states :
      /\ t \in DOMAIN conversation_states
      /\ IsPrefix(prev_states[t].messages, conversation_states[t].messages)

\* C10: a continue_conversation call does not change a role_type that was
\* already set.
C10_RoleTypeSetOnce ==
  last_call.op = "continue" =>
    \A t \in DOMAIN prev_states :
      prev_states[t].role_type # "None" =>
        /\ t \in DOMAIN conversation_states
        /\ conversation_states[t].role_type = prev_states[t].role_type

(***************************************************************************)
(* Materials collection.  A session that has been classified enters the    *)
(* materials entry stage (the stage value determine_next_node maps to      *)
(* dancer_materials / singer_actor_materials) and is then driven by        *)
(* continue_conversation calls for its own thread, with any outcome of     *)
(* llm.invoke.                                                             *)
(***************************************************************************)
\* human messages a session holds at most before a turn of SpecMaterials
MaxMaterialHumans == 7

RoleTexts ==
  { FullInfo \o " dancer", FullInfo \o " singer",
    FullInfo \o " dancer who sings" }

\* the session of thread_1 after initialize_conversation and one turn that
\* gives the basic information and the role
classified_session(role_text) ==
  LET c0 == initialize_conversation(EmptyStore, TRUE)
      c1 == continue_conversation(c0.store, role_text, new_thread_id, 0)
  IN  c1.store[new_thread_id]

materials_entry_session(role_text) ==
  [classified_session(role_text) EXCEPT !.current_stage = "materials_collection"]

\* submissions: each is accepted for some requirement and rejected for others
MaterialTexts == {"my_cv.pdf", "https://youtu.be/abcdefghijk"}

\* llm.invoke works, or fails in the first or second stage logic of the turn
MaterialFailAt == 0..2

InitMaterials ==
  /\ \E role_text \in RoleTexts :
       conversation_states =
         [t \in {new_thread_id} |-> materials_entry_session(role_text)]
  /\ prev_states = EmptyStore
  /\ workers = NoWorkers
  /\ last_call = NoCall
  /\ result = NoResult
  /\ storage_dir = EmptyDir

MaterialsTurn ==
  /\ human_count(conversation_states[new_thread_id].messages) < MaxMaterialHumans
  /\ \E user_input \in MaterialTexts, fail_at \in MaterialFailAt :
       LET c == continue_conversation(conversation_states, user_input,
                                      new_thread_id, fail_at)
       IN  /\ conversation_states' = c.store
           /\ prev_states' = conversation_states
           /\ UNCHANGED workers
           /\ last_call' = [op |-> "continue", user_input |-> user_input,
                            thread_id |-> new_thread_id, fail_at |-> fail_at]
           /\ result' = c.result
           /\ UNCHANGED storage_dir

NextMaterials == MaterialsTurn

SpecMaterials == InitMaterials /\ [][NextMaterials]_vars

\* the keys of a checklist, in order
requirement_keys(requirements) ==
  [i \in 1..Len(requirements) |-> requirements[i][1]]

\* the keys of a checklist that are marked collected
collected_keys(requirements) ==
  {requirements[i][1] : i \in {j \in 1..Len(requirements) : requirements[j][2]}}

collected_count(requirements) == Cardinality(collected_keys(requirements))

\* the collected entries are the first entries of the checklist
CollectedIsPrefix(requirements) ==
  \A i, j \in 1..Len(requirements) :
    (i < j /\ requirements[j][2]) => requirements[i][2]

\* the fixed list of the specification for a role
RoleKeys(role_type) ==
  IF role_type \in {"Dancer", "Dancer Who Sings"}
  THEN <<"cv", "dance_reel", "vocal_reel", "acting_reel">>
  ELSE <<"cv", "vocal_reel", "acting_reel", "movement_reel">>

\* the last call was a turn on a session that was in collect_requirements
\* with an open key, and the submission is valid for that key
AcceptedSubmission ==
  /\ ContinuedExisting
  /\ LET before == prev_states[last_call.thread_id]
         open == first_open(before.requirements_collected)
     IN  /\ before.current_stage = "collect_requirements"
         /\ open # 0
         /\ validate_material(before.requirements_collected[open][1],
                              last_call.user_input).valid

C12_CollectedPrefixGrows ==
  /\ \A t \in DOMAIN conversation_states :
       CollectedIsPrefix(conversation_states[t].requirements_collected)
  /\ ContinuedExisting =>
       LET before == prev_states[last_call.thread_id]
           after == conversation_states[last_call.thread_id]
           n == collected_count(before.requirements_collected)
           m == collected_count(after.requirements_collected)
       IN  /\ before.current_stage # "materials_collection" => (m >= n /\ m <= n + 1)
           /\ before.current_stage = "collect_requirements" =>
                (m = n + 1 <=> AcceptedSubmission)
           /\ before.current_stage = "research_questions" => m = n

C12_Witness ==
  /\ AcceptedSubmission
  /\ collected_keys(conversation_states[new_thread_id].requirements_collected)
       = {"cv", "dance_reel"}

\* C13: the keys of materials_collected are the requirement keys marked
\* collected, each stored text is valid for its key, and an accepted
\* submission is stored as the raw user text.
C13_MaterialsMatchCollected ==
  /\ \A t \in DOMAIN conversation_states :
       LET session == conversation_states[t]
       IN  /\ DOMAIN session.materials_collected
                = collected_keys(session.requirements_collected)
           /\ \A key \in DOMAIN session.materials_collected :
                validate_material(key, session.materials_collected[key]).valid
  /\ AcceptedSubmission =>
       LET before == prev_states[last_call.thread_id]
           key == before.requirements_collected[
                    first_open(before.requirements_collected)][1]
       IN  conversation_states[last_call.thread_id].materials_collected[key]
             = last_call.user_input

C13_Witness ==
  /\ AcceptedSubmission
  /\ DOMAIN conversation_states[new_thread_id].materials_collected
       = {"cv", "vocal_reel", "acting_reel", "movement_reel"}

\* C14: in every state where some requirement key is uncollected
\* ready_for_submission is false.
C14_ReadyOnlyWhenAllCollected ==
  \A t \in DOMAIN conversation_states :
    LET session == conversation_states[t]
    IN  (\E i \in 1..Len(session.requirements_collected) :
           ~session.requirements_collected[i][2])
        => ~session.ready_for_submission

C14_Witness ==
  /\ AcceptedSubmission
  /\ collected_count(conversation_states[new_thread_id].requirements_collected) = 2
  /\ ~conversation_states[new_thread_id].ready_for_submission

\* C15: the turn in which collect_requirements accepts the submission for
\* the last uncollected key ends with current_stage = research_questions
\* and ready_for_submission true.
C15_LastAcceptedSetsReady ==
  ( /\ AcceptedSubmission
    /\ collected_count(prev_states[last_call.thread_id].requirements_collected)
         = Len(prev_states[last_call.thread_id].requirements_collected) - 1 )
  => /\ conversation_states[last_call.thread_id].current_stage = "research_questions"
     /\ conversation_states[last_call.thread_id].ready_for_submission

\* C16: after the welcome stage has run on an empty history the session
\* holds exactly one utterance, the assistant's, and is in basic_info; a
\* second run of the welcome stage on it appends nothing and changes no
\* field.
C16_WelcomeOnceThenNoOp ==
  last_call.op = "initialize" =>
    LET session == conversation_states[new_thread_id]
    IN  /\ Len(session.messages) = 1
        /\ session.messages[1].type = "ai"
        /\ session.current_stage = "basic_info"
        /\ \A llm_ok \in BOOLEAN :
             welcome_node(session, llm_ok) = Returned(session)

(***************************************************************************)
(* The extractor on its own: a caller that holds an applicant_info mapping *)
(* and passes it, with a message text, to extract_applicant_info or to     *)
(* ErrorHandler.safe_extract_info, and keeps what the call returns (line   *)
(* 216-217 of collect_basic_info).                                         *)
(***************************************************************************)
ExtractTexts ==
  { "hello", FullInfo, "My name is Al Smith", "al@y.org",
    "phone: +44 7700 900123", "profile: https://www.spotlight.com/9876" }

ExtractedFields == {"name", "email", "phone", "spotlight"}

\* mappings a session can hold when the extractor is called: empty, with a
\* field of another stage logic, with an empty and with a filled name
ExtractInfos ==
  { EmptyDict,
    [current_agency |-> "Acme Talent"],
    [name |-> "", research_answers |-> "all of them"],
    [name |-> "Jo Bloggs", spotlight |-> "https://www.spotlight.com/1234"] }

NoExtractCall ==
  [op |-> "none", message |-> "", current_info |-> EmptyDict,
   current_info_after |-> EmptyDict]

InitExtract ==
  /\ \E info \in ExtractInfos :
       conversation_states =
         [t \in {new_thread_id} |-> [initial_state EXCEPT !.applicant_info = info]]
  /\ prev_states = EmptyStore
  /\ workers = NoWorkers
  /\ last_call = NoExtractCall
  /\ result = NoResult
  /\ storage_dir = EmptyDir

ExtractInfo ==
  \E message \in ExtractTexts :
    LET current_info == conversation_states[new_thread_id].applicant_info
        c == call_extract_applicant_info(message, current_info)
    IN  /\ conversation_states' =
             [conversation_states EXCEPT ![new_thread_id].applicant_info = c.returned]
        /\ prev_states' = conversation_states
        /\ UNCHANGED workers
        /\ last_call' = [op |-> "extract", message |-> message,
                         current_info |-> current_info,
                         current_info_after |-> c.current_info]
        /\ result' = [raised |-> FALSE, returned |-> <<c.returned>>, executed |-> 0]
        /\ UNCHANGED storage_dir

SafeExtractInfo ==
  \E message \in ExtractTexts, extract_raises \in BOOLEAN :
    LET current_info == conversation_states[new_thread_id].applicant_info
        c == safe_extract_info(message, current_info, extract_raises)
    IN  /\ conversation_states' =
             [conversation_states EXCEPT ![new_thread_id].applicant_info = c.returned[1]]
        /\ prev_states' = conversation_states
        /\ UNCHANGED workers
        /\ last_call' = [op |-> "safe_extract", message |-> message,
                         current_info |-> current_info,
                         current_info_after |-> c.current_info]
        /\ result' = [raised |-> c.raised, returned |-> c.returned, executed |-> 0]
        /\ UNCHANGED storage_dir

NextExtract == ExtractInfo \/ SafeExtractInfo

SpecExtract == InitExtract /\ [][NextExtract]_vars

\* no pattern of the extractor matches the text
NoPatternMatches(message) ==
  /\ name_match(message) = ""
  /\ email_match(message) = ""
  /\ phone_match(message) = ""
  /\ spotlight_cue_match(message) = ""

\* C17: a call of the extractor returns a mapping in which every one of
\* name, email, phone, spotlight that was non-empty before has its old
\* value, every other key has its old value, and the only keys that can be
\* new are those four.
C17_FirstWriteWins ==
  last_call.op # "none" =>
    LET before == last_call.current_info
        after == result.returned[1]
    IN  /\ \A key \in ExtractedFields :
             DictTruthy(before, key) => (key \in DOMAIN after /\ after[key] = before[key])
        /\ \A key \in (DOMAIN before) \ ExtractedFields :
             key \in DOMAIN after /\ after[key] = before[key]
        /\ (DOMAIN after) \ (DOMAIN before) \subseteq ExtractedFields

C17_Witness ==
  /\ last_call.op = "extract"
  /\ last_call.message = "My name is Al Smith"
  /\ DictTruthy(last_call.current_info, "name")
  /\ last_call.current_info["name"] = "Jo Bloggs"
  /\ DictTruthy(last_call.current_info, "phone")
  /\ result.returned[1]["name"] = "Jo Bloggs"

\* C18: a call of the extractor leaves the mapping passed in as it was, and
\* returns a mapping equal to the one passed in when no pattern matches
\* the text.
C18_ExtractorIsPure ==
  last_call.op # "none" =>
    /\ ~result.raised
    /\ last_call.current_info_after = last_call.current_info
    /\ NoPatternMatches(last_call.message) =>
         result.returned[1] = last_call.current_info

C18_Witness ==
  /\ last_call.op = "extract"
  /\ last_call.message = "al@y.org"
  /\ "current_agency" \in DOMAIN last_call.current_info
  /\ ~DictTruthy(last_call.current_info, "email")
  /\ result.returned[1] # last_call.current_info
  /\ last_call.current_info_after = last_call.current_info

(***************************************************************************)
(* ConversationPersistence (src/persistence.py).  storage_dir maps a       *)
(* thread_id to its <thread_id>.json file; a file is the JSON value        *)
(* written and whether the text is complete (json.dump ran to the end).    *)
(* The environment decides whether opening, writing and reading succeed.   *)
(***************************************************************************)
\* human messages a session holds at most before a turn of SpecPersist
MaxPersistHumans == 3

\* a langchain message that is neither a HumanMessage nor an AIMessage
SystemMessage(content) == [type |-> "system", content |-> content]

\* str(msg) of a message
str_message(msg) == "content='" \o msg.content \o "'"

\* json.dump / json.load of None, True, False and of a string
json_encode(value) ==
  CASE value = "None" -> "null"
    [] value = "True" -> "true"
    [] value = "False" -> "false"
    [] OTHER -> value

json_decode(text) ==
  CASE text = "null" -> "None"
    [] text = "true" -> "True"
    [] text = "false" -> "False"
    [] OTHER -> text

_serialize_messages(messages) ==
  [i \in 1..Len(messages) |->
     IF messages[i].type = "human"
     THEN [type |-> "human", content |-> messages[i].content]
     ELSE IF messages[i].type = "ai"
     THEN [type |-> "ai", content |-> messages[i].content]
     ELSE [type |-> "unknown", content |-> str_message(messages[i])]]

RECURSIVE deserialize_from(_, _)
deserialize_from(messages_data, i) ==
  IF i > Len(messages_data) THEN <<>>
  ELSE LET msg_data == messages_data[i]
           rest == deserialize_from(messages_data, i + 1)
       IN  IF msg_data.type = "human"
           THEN <<HumanMessage(msg_data.content)>> \o rest
           ELSE IF msg_data.type = "ai"
           THEN <<AIMessage(msg_data.content)>> \o rest
           ELSE rest

\* a deserializer that turns an entry of unknown type into an assistant message
_deserialize_messages_keep_unknown(messages_data) ==
  [i \in 1..Len(messages_data) |->
     IF messages_data[i].type = "human"
     THEN HumanMessage(messages_data[i].content)
     ELSE AIMessage(messages_data[i].content)]

_deserialize_messages(messages_data) == deserialize_from(messages_data, 1)

\* the JSON value save_state writes
serializable_state(state) ==
  [applicant_info |-> state.applicant_info,
   role_type |-> json_encode(state.role_type),
   current_stage |-> state.current_stage,
   requirements_collected |-> state.requirements_collected,
   materials_collected |-> state.materials_collected,
   ready_for_submission |-> state.ready_for_submission,
   has_spotlight |-> json_encode(state.has_spotlight),
   has_representation |-> json_encode(state.has_representation),
   work_preferences |-> state.work_preferences,
   messages |-> _serialize_messages(state.messages)]

\* the dict load_state builds from the JSON value of a file
loaded_state(data) ==
  [applicant_info |-> data.applicant_info,
   role_type |-> json_decode(data.role_type),
   current_stage |-> data.current_stage,
   requirements_collected |-> data.requirements_collected,
   materials_collected |-> data.materials_collected,
   ready_for_submission |-> data.ready_for_submission,
   has_spotlight |-> json_decode(data.has_spotlight),
   has_representation |-> json_decode(data.has_representation),
   work_preferences |-> data.work_preferences,
   messages |-> _deserialize_messages(data.messages)]

\* "ok"; "open_fails": open(filepath, 'w') raises, nothing is written;
\* "dump_fails": json.dump raises after the file was truncated
SaveOutcomes == {"ok", "open_fails", "dump_fails"}

\* "ok"; "read_fails": open(filepath, 'r') or reading raises
LoadOutcomes == {"ok", "read_fails"}

write_file(dir, thread_id, state, outcome) ==
  IF outcome = "open_fails" THEN dir
  ELSE DictPut(dir, thread_id,
               [complete |-> outcome = "ok", data |-> serializable_state(state)])

\* save_state without the try / except
save_state_unguarded(dir, thread_id, state, outcome) ==
  [dir |-> write_file(dir, thread_id, state, outcome),
   state |-> state,
   raised |-> outcome # "ok",
   logged_error |-> FALSE]

\* save_state: the directory and the caller's state after the call
save_state(dir, thread_id, state, outcome) ==
  [dir |-> write_file(dir, thread_id, state, outcome),
   state |-> state,
   raised |-> FALSE,
   logged_error |-> outcome # "ok"]

\* load_state: returned is <<state>>, or << >> for None
load_state(dir, thread_id, outcome) ==
  IF thread_id \notin DOMAIN dir
  THEN [raised |-> FALSE, returned |-> <<>>, logged_error |-> FALSE]
  ELSE IF outcome = "read_fails" \/ ~dir[thread_id].complete
  THEN [raised |-> FALSE, returned |-> <<>>, logged_error |-> TRUE]
  ELSE [raised |-> FALSE, returned |-> <<loaded_state(dir[thread_id].data)>>,
        logged_error |-> FALSE]

with_system_message(state) ==
  [state EXCEPT !.messages = Append(@, SystemMessage("You are Emily"))]

PersistSessions ==
  { initialize_conversation(EmptyStore, TRUE).store[new_thread_id] }
  \cup { materials_entry_session(role_text) : role_text \in RoleTexts }
  \cup { with_system_message(materials_entry_session(FullInfo \o " dancer")) }

NoPersistCall ==
  [op |-> "none", thread_id |-> "", save_outcome |-> "ok",
   load_outcome |-> "ok", state |-> initial_state]

NoPersistResult ==
  [raised |-> FALSE, returned |-> <<>>, executed |-> 0, logged_error |-> FALSE]

InitPersist ==
  /\ \E state \in PersistSessions :
       conversation_states = [t \in {new_thread_id} |-> state]
  /\ prev_states = EmptyStore
  /\ workers = NoWorkers
  /\ last_call = NoPersistCall
  /\ result = NoPersistResult
  /\ storage_dir = EmptyDir

PersistTurn ==
  /\ human_count(conversation_states[new_thread_id].messages) < MaxPersistHumans
  /\ \E user_input \in MaterialTexts :
       LET c == continue_conversation(conversation_states, user_input,
                                      new_thread_id, 0)
       IN  /\ conversation_states' = c.store
           /\ prev_states' = conversation_states
           /\ UNCHANGED workers
           /\ last_call' = [NoPersistCall EXCEPT !.op = "turn",
                                                 !.thread_id = new_thread_id]
           /\ result' = [raised |-> c.result.raised,
                         returned |-> c.result.returned,
                         executed |-> c.result.executed,
                         logged_error |-> FALSE]
           /\ UNCHANGED storage_dir

SaveState ==
  \E thread_id \in DOMAIN conversation_states, outcome \in SaveOutcomes :
    LET c == save_state(storage_dir, thread_id,
                        conversation_states[thread_id], outcome)
    IN  /\ storage_dir' = c.dir
        /\ conversation_states' =
             [conversation_states EXCEPT ![thread_id] = c.state]
        /\ prev_states' = conversation_states
        /\ UNCHANGED workers
        /\ last_call' = [op |-> "save", thread_id |-> thread_id,
                         save_outcome |-> outcome, load_outcome |-> "ok",
                         state |-> conversation_states[thread_id]]
        /\ result' = [raised |-> c.raised, returned |-> <<>>, executed |-> 0,
                      logged_error |-> c.logged_error]

LoadState ==
  \E thread_id \in ThreadIds, outcome \in LoadOutcomes :
    LET c == load_state(storage_dir, thread_id, outcome)
    IN  /\ UNCHANGED <<storage_dir, conversation_states>>
        /\ prev_states' = conversation_states
        /\ UNCHANGED workers
        /\ last_call' = [NoPersistCall EXCEPT !.op = "load",
                                              !.thread_id = thread_id,
                                              !.load_outcome = outcome]
        /\ result' = [raised |-> c.raised, returned |-> c.returned,
                      executed |-> 0, logged_error |-> c.logged_error]

\* load_state called right after save_state on the same thread_id
SaveThenLoad ==
  \E thread_id \in DOMAIN conversation_states,
     save_outcome \in SaveOutcomes, load_outcome \in LoadOutcomes :
    LET s == save_state(storage_dir, thread_id,
                        conversation_states[thread_id], save_outcome)
        c == load_state(s.dir, thread_id, load_outcome)
    IN  /\ storage_dir' = s.dir
        /\ conversation_states' =
             [conversation_states EXCEPT ![thread_id] = s.state]
        /\ prev_states' = conversation_states
        /\ UNCHANGED workers
        /\ last_call' = [op |-> "save_load", thread_id |-> thread_id,
                         save_outcome |-> save_outcome,
                         load_outcome |-> load_outcome,
                         state |-> conversation_states[thread_id]]
        /\ result' = [raised |-> s.raised \/ c.raised, returned |-> c.returned,
                      executed |-> 0,
                      logged_error |-> s.logged_error \/ c.logged_error]

NextPersist == PersistTurn \/ SaveState \/ LoadState \/ SaveThenLoad

SpecPersist == InitPersist /\ [][NextPersist]_vars

\* the human and ai messages of a history, in order
user_and_assistant(messages) ==
  SelectSeq(messages, LAMBDA m : m.type \in {"human", "ai"})

\* the record returned equals the saved session, but for the messages of
\* other roles
RoundTripEqual(loaded, saved) ==
  /\ loaded.applicant_info = saved.applicant_info
  /\ loaded.role_type = saved.role_type
  /\ loaded.current_stage = saved.current_stage
  /\ loaded.requirements_collected = saved.requirements_collected
  /\ loaded.materials_collected = saved.materials_collected
  /\ loaded.ready_for_submission = saved.ready_for_submission
  /\ loaded.has_spotlight = saved.has_spotlight
  /\ loaded.has_representation = saved.has_representation
  /\ loaded.work_preferences = saved.work_preferences
  /\ loaded.messages = user_and_assistant(saved.messages)

C20_PersistenceNeverRaises ==
  last_call.op \in {"save", "load", "save_load"} =>
    /\ ~result.raised
    /\ conversation_states = prev_states
    /\ (last_call.op # "load" /\ last_call.save_outcome # "ok") =>
         result.logged_error
    /\ ( /\ last_call.op # "save"
         /\ \/ last_call.load_outcome # "ok"
            \/ last_call.thread_id \notin DOMAIN storage_dir
            \/ ~storage_dir[last_call.thread_id].complete ) =>
         result.returned = <<>>

C20_Witness ==
  /\ last_call.op = "save_load"
  /\ last_call.save_outcome = "dump_fails"
  /\ ~result.raised
  /\ result.logged_error
  /\ result.returned = <<>>
  /\ conversation_states[new_thread_id] = last_call.state
  /\ last_call.state.materials_collected # EmptyDict

\* C21: when a continue_conversation call has returned, the session store
\* holds under the call's thread_id a session equal to the returned one.
C21_TurnResultStored ==
  (last_call.op = "continue" /\ Len(result.returned) = 1) =>
    /\ last_call.thread_id \in DOMAIN conversation_states
    /\ conversation_states[last_call.thread_id] = result.returned[1]

(***************************************************************************)
(* Two workers inside continue_conversation for the same thread_id.  The   *)
(* function takes no lock; conversation_states[thread_id] is one dict that *)
(* both workers mutate in place (every stage logic returns the dict it was *)
(* given), so a worker's steps act on the stored session directly.  A      *)
(* worker can be preempted between the statements of the function; the     *)
(* steps below are the append (lines 1043-1046), one pass of the while     *)
(* loop (lines 1052-1069) and the write-back (lines 1071-1074).            *)
(***************************************************************************)
Workers == {"w1", "w2"}

ConcurrentTexts == {"my_cv.pdf", "https://youtu.be/abcdefghijk", "yes"}

\* a session that waits in collect_requirements with no key collected
waiting_for_materials(role_text) ==
  continue_conversation(
    [t \in {new_thread_id} |-> materials_entry_session(role_text)],
    "hello", new_thread_id, 0).store[new_thread_id]

ConcurrentSessions ==
  { waiting_for_materials(role_text) : role_text \in RoleTexts }
  \cup { classified_session(FullInfo \o " dancer") }

InitConcurrent ==
  /\ \E state \in ConcurrentSessions :
       /\ conversation_states = [t \in {new_thread_id} |-> state]
       /\ prev_states = [t \in {new_thread_id} |-> state]
  /\ \E inputs \in [Workers -> ConcurrentTexts] :
       workers = [w \in Workers |->
                    [pc |-> "start", user_input |-> inputs[w],
                     thread_id |-> new_thread_id, iterations |-> 0]]
  /\ last_call = NoCall
  /\ result = NoResult
  /\ storage_dir = EmptyDir

\* lines 1039-1046: look the session up and append the user message
WorkerAppend(w) ==
  /\ workers[w].pc = "start"
  /\ IF workers[w].thread_id \notin DOMAIN conversation_states
     THEN /\ conversation_states' =
               initialize_conversation(conversation_states, TRUE).store
          /\ workers' = [workers EXCEPT ![w].pc = "done"]
     ELSE /\ conversation_states' =
               [conversation_states EXCEPT ![workers[w].thread_id] =
                  Append_message(@, HumanMessage(workers[w].user_input))]
          /\ workers' = [workers EXCEPT ![w].pc = "loop"]
  /\ UNCHANGED <<prev_states, last_call, result, storage_dir>>

\* one pass of the while loop, lines 1052-1069
WorkerIterate(w) ==
  /\ workers[w].pc = "loop"
  /\ \E llm_ok \in BOOLEAN :
       LET thread_id == workers[w].thread_id
           current_state == conversation_states[thread_id]
           original_stage == current_state.current_stage
           next_node == determine_next_node(current_state)
           r == execute_node(next_node, current_state, llm_ok)
       IN  IF ~loop_condition(workers[w].iterations)
           THEN /\ workers' = [workers EXCEPT ![w].pc = "store"]
                /\ UNCHANGED conversation_states
           ELSE IF next_node = "END"
           THEN /\ conversation_states' =
                     [conversation_states EXCEPT ![thread_id].current_stage = "END"]
                /\ workers' = [workers EXCEPT ![w].pc = "store"]
           ELSE /\ conversation_states' =
                     [conversation_states EXCEPT ![thread_id] = r.state]
                /\ workers' =
                     [workers EXCEPT
                        ![w].pc = IF r.raised THEN "raised"
                                  ELSE IF r.state.current_stage = original_stage
                                  THEN "store" ELSE "loop",
                        ![w].iterations =
                           IF ~r.raised /\ r.state.current_stage # original_stage
                           THEN @ + 1 ELSE @]
  /\ UNCHANGED <<prev_states, last_call, result, storage_dir>>

\* lines 1071-1074: conversation_states[thread_id] = current_state, the
\* dict that is stored there already
WorkerStore(w) ==
  /\ workers[w].pc = "store"
  /\ workers' = [workers EXCEPT ![w].pc = "done"]
  /\ UNCHANGED <<conversation_states, prev_states, last_call, result, storage_dir>>

NextConcurrent ==
  \E w \in Workers : WorkerAppend(w) \/ WorkerIterate(w) \/ WorkerStore(w)

SpecConcurrent == InitConcurrent /\ [][NextConcurrent]_vars

\* the session stored after two turns that run one after the other with a
\* working llm.invoke
serial_turns(store, thread_id, first_input, second_input) ==
  continue_conversation(
    continue_conversation(store, first_input, thread_id, 0).store,
    second_input, thread_id, 0).store[thread_id]

\* C22: when two workers have each completed a turn for the same
\* thread_id, the stored session holds both user utterances and is the
\* session that the two turns produce when run one after the other, in one
\* of the two orders.
C22_NoLostUpdate ==
  (\A w \in Workers : workers[w].pc = "done") =>
    LET session == conversation_states[new_thread_id]
    IN  /\ \A w \in Workers :
             \E i \in 1..Len(session.messages) :
               session.messages[i] = HumanMessage(workers[w].user_input)
        /\ \/ [session EXCEPT !.messages = <<>>] =
                [serial_turns(prev_states, new_thread_id,
                              workers["w1"].user_input, workers["w2"].user_input)
                   EXCEPT !.messages = <<>>]
           \/ [session EXCEPT !.messages = <<>>] =
                [serial_turns(prev_states, new_thread_id,
                              workers["w2"].user_input, workers["w1"].user_input)
                   EXCEPT !.messages = <<>>]

(***************************************************************************)
(* Unknown stages: the default of determine_next_node and                  *)
(* ConversationErrorHandler.handle_routing_error (src/error_handlers.py).  *)
(***************************************************************************)
\* fallback_stages.get(current_stage, "welcome")
handle_routing_error(current_stage) ==
  CASE current_stage = "welcome" -> "collect_basic_info"
    [] current_stage = "collect_basic_info" -> "classify_role"
    [] current_stage = "classify_role" -> "explain_requirements_dancer"
    [] current_stage = "materials_collection" -> "research_questions"
    [] current_stage = "research_questions" -> "final_summary"
    [] OTHER -> "welcome"

\* the keys of fallback_stages, the terminal marker and an id nobody writes
RoutingInputs ==
  { "welcome", "collect_basic_info", "classify_role", "materials_collection",
    "research_questions", "END", "no_such_stage" }

\* the values of current_stage the driver resolves to a stage logic
resolved_stages ==
  { "basic_info", "role_classification", "explain_requirements",
    "spotlight_check", "collect_spotlight", "representation_check",
    "collect_representation", "work_preferences", "materials_collection",
    "collect_requirements", "research_questions", "final_questions" }

\* a stage id in the widest sense: the initial stage, the terminal marker,
\* a value the driver resolves, or the name of a stage logic
KnownStageIds == {"welcome", "END"} \cup resolved_stages \cup node_functions

\* C23: a turn on a session whose current_stage the driver does not
\* resolve ends with an assistant utterance and a known stage, and every
\* id the routing fallback returns is a known stage id.
C23_UnknownStageRecovered ==
  /\ ( /\ ContinuedExisting
       /\ Len(result.returned) = 1
       /\ prev_states[last_call.thread_id].current_stage \notin resolved_stages )
     => /\ last_message(result.returned[1]).type = "ai"
        /\ result.returned[1].current_stage \in KnownStageIds
  /\ \A current_stage \in RoutingInputs :
       handle_routing_error(current_stage) \in KnownStageIds

(***************************************************************************)
(* The validators on their own: validate_material of the engine and        *)
(* MaterialValidator.validate_cv / validate_video_link, applied to a       *)
(* requirement key and a text.                                             *)
(***************************************************************************)
ValidateTexts ==
  { "my_cv.pdf", "my_cv.txt", "Here is my resume in docx format",
    "I have a Word document with my CV", "I forgot my password",
    "CV in HTML format", "", "hello", "https://youtu.be/abcdefghijk",
    "https://vimeo.com/123456789", "https://youtube.com",
    "see youtu.be/abcdefghijk and vimeo.com/1",
    "https://tiktok.com/@user/video/123", "my showreel is on my website" }

\* the requirement keys and a key that is not one
MaterialTypes == {"cv", "headshot"} \cup ReelTypes

NoValidateCall == [op |-> "none", material_type |-> "", content |-> ""]

InitValidate ==
  /\ conversation_states = EmptyStore
  /\ prev_states = EmptyStore
  /\ workers = NoWorkers
  /\ last_call = NoValidateCall
  /\ result = NoResult
  /\ storage_dir = EmptyDir

ValidateMaterial ==
  \E material_type \in MaterialTypes, content \in ValidateTexts :
    /\ last_call' = [op |-> "validate_material",
                     material_type |-> material_type, content |-> content]
    /\ result' = [raised |-> FALSE,
                  returned |-> <<validate_material(material_type, content)>>,
                  executed |-> 0]
    /\ UNCHANGED <<conversation_states, prev_states, workers, storage_dir>>

ValidateCv ==
  \E content \in ValidateTexts :
    /\ last_call' = [op |-> "validate_cv", material_type |-> "cv",
                     content |-> content]
    /\ result' = [raised |-> FALSE, returned |-> <<validate_cv(content)>>,
                  executed |-> 0]
    /\ UNCHANGED <<conversation_states, prev_states, workers, storage_dir>>

ValidateVideoLink ==
  \E material_type \in ReelTypes, content \in ValidateTexts :
    /\ last_call' = [op |-> "validate_video_link",
                     material_type |-> material_type, content |-> content]
    /\ result' = [raised |-> FALSE,
                  returned |-> <<validate_video_link(content, material_type)>>,
                  executed |-> 0]
    /\ UNCHANGED <<conversation_states, prev_states, workers, storage_dir>>

NextValidate == ValidateMaterial \/ ValidateCv \/ ValidateVideoLink

SpecValidate == InitValidate /\ [][NextValidate]_vars

\* the texts of ValidateTexts that name a PDF or Word format
NamesPdfOrWord ==
  { "my_cv.pdf", "Here is my resume in docx format",
    "I have a Word document with my CV" }

\* the texts of ValidateTexts that hold a YouTube / a Vimeo reference
YouTubeTexts ==
  { "https://youtu.be/abcdefghijk", "https://youtube.com",
    "see youtu.be/abcdefghijk and vimeo.com/1" }

VimeoTexts ==
  { "https://vimeo.com/123456789", "see youtu.be/abcdefghijk and vimeo.com/1" }

\* the feedback texts of validate_video_link that hold the word YouTube
MentionsYouTube(feedback) ==
  \E material_type \in ReelTypes :
    feedback \in { material_type \o " link accepted (YouTube)",
                   "Please provide a direct YouTube or Vimeo link for your "
                     \o material_type,
                   material_type \o " must be a YouTube or Vimeo link" }

\* the feedback texts of validate_video_link that hold the word Vimeo
MentionsVimeo(feedback) ==
  \E material_type \in ReelTypes :
    feedback \in { material_type \o " link accepted (Vimeo)",
                   "Please provide a direct YouTube or Vimeo link for your "
                     \o material_type,
                   material_type \o " must be a YouTube or Vimeo link" }

\* C24: a CV text is accepted iff it names a PDF or Word format, by
\* validate_material and by MaterialValidator.validate_cv alike, so the two
\* give the same verdict.
C24_CvVerdict ==
  ( \/ last_call.op = "validate_cv"
    \/ (last_call.op = "validate_material" /\ last_call.material_type = "cv") )
  => /\ result.returned[1].valid = (last_call.content \in NamesPdfOrWord)
     /\ validate_material("cv", last_call.content).valid
          = validate_cv(last_call.content).valid

\* C25: for a reel key validate_video_link accepts a text iff it holds a
\* YouTube or Vimeo reference; the feedback of an acceptance names the
\* platform found, YouTube when both are present, and the feedback of a
\* rejection names both platforms.
C25_VideoLinkVerdict ==
  last_call.op = "validate_video_link" =>
    LET v == result.returned[1]
        content == last_call.content
    IN  /\ v.valid = (content \in YouTubeTexts \cup VimeoTexts)
        /\ (v.valid /\ content \in YouTubeTexts) =>
             (MentionsYouTube(v.feedback) /\ ~MentionsVimeo(v.feedback))
        /\ (v.valid /\ content \notin YouTubeTexts) =>
             (MentionsVimeo(v.feedback) /\ ~MentionsYouTube(v.feedback))
        /\ ~v.valid => (MentionsYouTube(v.feedback) /\ MentionsVimeo(v.feedback))

C25_Witness ==
  /\ last_call.op = "validate_video_link"
  /\ last_call.material_type = "acting_reel"
  /\ last_call.content = "see youtu.be/abcdefghijk and vimeo.com/1"
  /\ result.returned[1].valid
  /\ result.returned[1].feedback = "acting_reel link accepted (YouTube)"

\* C26: in a continue_conversation call a stage logic that leaves
\* current_stage unchanged is the last one executed, and no stage logic is
\* executed on a session whose stage is terminal.
C26_StopsWhenStageStable ==
  ContinuedExisting =>
    /\ \A i \in 1..Len(result.trace) :
         /\ result.trace[i].stage_after = result.trace[i].stage_before
              => i = Len(result.trace)
         /\ result.trace[i].stage_before # "END"
    /\ prev_states[last_call.thread_id].current_stage = "END"
         => result.trace = <<>>
    /\ Len(result.trace) = result.executed

C26_Witness ==
  /\ ContinuedExisting
  /\ Len(result.trace) = 1
  /\ ~result.raised
  /\ result.trace[1].stage_after = result.trace[1].stage_before
  /\ determine_next_node(result.returned[1]) \in node_functions

(***************************************************************************)
(* Intake: the first turns of a conversation, from the welcome message     *)
(* through basic information and role classification, with any outcome of *)
(* llm.invoke.                                                             *)
(***************************************************************************)
\* human messages a session holds at most before a turn of SpecIntake
MaxIntakeHumans == 3

IntakeTexts ==
  { "hello", FullInfo, FullInfo \o " dancer", FullInfo \o " dancer who sings",
    "dancer who sings", "singer", "I love to perform", "I am an actor",
    "mover", "al@y.org" }

\* llm.invoke works, or fails in the first or second stage logic of the turn
IntakeFailAt == 0..2

InitIntake ==
  /\ conversation_states = initialize_conversation(EmptyStore, TRUE).store
  /\ prev_states = EmptyStore
  /\ workers = NoWorkers
  /\ last_call = NoCall
  /\ result = NoResult
  /\ storage_dir = EmptyDir

IntakeTurn ==
  /\ human_count(conversation_states[new_thread_id].messages) < MaxIntakeHumans
  /\ \E user_input \in IntakeTexts, fail_at \in IntakeFailAt :
       LET c == continue_conversation(conversation_states, user_input,
                                      new_thread_id, fail_at)
       IN  /\ conversation_states' = c.store
           /\ prev_states' = conversation_states
           /\ UNCHANGED workers
           /\ last_call' = [op |-> "continue", user_input |-> user_input,
                            thread_id |-> new_thread_id, fail_at |-> fail_at]
           /\ result' = c.result
           /\ UNCHANGED storage_dir

NextIntake == IntakeTurn

SpecIntake == InitIntake /\ [][NextIntake]_vars

\* name, email and phone are all present and non-empty
HasBasicInfo(info) ==
  /\ DictTruthy(info, "name")
  /\ DictTruthy(info, "email")
  /\ DictTruthy(info, "phone")

\* C27: a turn on a session in basic_info moves the stage to
\* role_classification when name, email and phone are all present after
\* the extraction, and leaves it on basic_info while one is missing.
C27_BasicInfoAdvances ==
  ( /\ ContinuedExisting
    /\ ~result.raised
    /\ prev_states[last_call.thread_id].current_stage = "basic_info" )
  => LET after == conversation_states[last_call.thread_id]
     IN  IF HasBasicInfo(after.applicant_info)
         THEN result.trace[1].stage_after = "role_classification"
         ELSE after.current_stage = "basic_info"

\* the role the priority order of the specification gives each text
ExpectedRole(text) ==
  CASE text \in {"dancer who sings", FullInfo \o " dancer who sings"} ->
         "Dancer Who Sings"
    [] text = FullInfo \o " dancer" -> "Dancer"
    [] text \in {"singer", "I am an actor", "mover"} -> "Singer/Actor"
    [] OTHER -> "None"

\* the last call executed classify_role
ClassifyRoleRan ==
  /\ ContinuedExisting
  /\ \E i \in 1..Len(result.trace) : result.trace[i].node = "classify_role"

\* C28: when classify_role has run on a user text, role_type is the role
\* of the first of "dancer who sings", "dancer", {"singer", "actor",
\* "mover"} the text contains, with the checklist of that role and nothing
\* collected; when the text contains none, role_type and
\* requirements_collected are what they were.
C28_FirstMatchDecidesRole ==
  ClassifyRoleRan =>
    LET before == prev_states[last_call.thread_id]
        after == conversation_states[last_call.thread_id]
        role == ExpectedRole(last_call.user_input)
    IN  IF role = "None"
        THEN /\ after.role_type = before.role_type
             /\ after.requirements_collected = before.requirements_collected
        ELSE /\ after.role_type = role
             /\ requirement_keys(after.requirements_collected) = RoleKeys(role)
             /\ collected_keys(after.requirements_collected) = {}

C28_Witness ==
  /\ ClassifyRoleRan
  /\ last_call.user_input = FullInfo \o " dancer who sings"
  /\ prev_states[new_thread_id].role_type = "None"
  /\ conversation_states[new_thread_id].role_type = "Dancer Who Sings"

\* the stage logic that runs after the i-th one of the last call: the next
\* one of the call, or the one the next turn starts with
next_executed(i) ==
  IF i < Len(result.trace) THEN result.trace[i + 1].node
  ELSE determine_next_node(conversation_states[last_call.thread_id])

\* C29: the stage logic that runs after classify_role is the explanation
\* logic of the detected role, and request_role_clarification when no role
\* was detected.
C29_AfterClassifyRole ==
  ContinuedExisting =>
    \A i \in 1..Len(result.trace) :
      (result.trace[i].node = "classify_role" /\ ~result.trace[i].raised) =>
        next_executed(i) =
          ( CASE ExpectedRole(last_call.user_input) = "Dancer" ->
                   "dancer_requirements"
              [] ExpectedRole(last_call.user_input) = "Dancer Who Sings" ->
                   "dancer_who_sings_requirements"
              [] ExpectedRole(last_call.user_input) = "Singer/Actor" ->
                   "singer_actor_requirements"
              [] OTHER -> "request_role_clarification" )

\* C30: when spotlight_check has processed a user answer, the stage logic
\* that handles the next user message is collect_spotlight_link if
\* has_spotlight is true and representation_check otherwise; likewise
\* collect_representation_details / work_preferences after
\* representation_check.
C30_AfterSpotlightAndRepresentation ==
  (ContinuedExisting /\ ~result.raised /\ Len(result.trace) >= 1) =>
    LET after == conversation_states[last_call.thread_id]
    IN  /\ result.trace[1].node = "spotlight_check" =>
             determine_next_node(after) =
               IF after.has_spotlight = "True" THEN "collect_spotlight_link"
               ELSE "representation_check"
        /\ result.trace[1].node = "representation_check" =>
             determine_next_node(after) =
               IF after.has_representation = "True"
               THEN "collect_representation_details"
               ELSE "work_preferences"

(***************************************************************************)
(* The work-preferences stage.  No stage logic the driver runs writes      *)
(* current_stage = "work_preferences", so the stage is entered here from   *)
(* a classified session whose stage is set to the value                    *)
(* determine_next_node maps to work_preferences, and is then driven by     *)
(* continue_conversation calls with any outcome of llm.invoke.             *)
(***************************************************************************)
\* human messages a session holds at most before a turn of SpecPreferences
MaxPreferenceHumans == 4

PreferenceTexts == {"all of them", "yes", "hello"}

\* llm.invoke works, or fails in the first stage logic of the turn
PreferenceFailAt == 0..1

preferences_entry_session(role_text) ==
  [classified_session(role_text) EXCEPT !.current_stage = "work_preferences"]

InitPreferences ==
  /\ \E role_text \in RoleTexts :
       conversation_states =
         [t \in {new_thread_id} |-> preferences_entry_session(role_text)]
  /\ prev_states = EmptyStore
  /\ workers = NoWorkers
  /\ last_call = NoCall
  /\ result = NoResult
  /\ storage_dir = EmptyDir

PreferencesTurn ==
  /\ human_count(conversation_states[new_thread_id].messages)
       < MaxPreferenceHumans
  /\ \E user_input \in PreferenceTexts, fail_at \in PreferenceFailAt :
       LET c == continue_conversation(conversation_states, user_input,
                                      new_thread_id, fail_at)
       IN  /\ conversation_states' = c.store
           /\ prev_states' = conversation_states
           /\ UNCHANGED workers
           /\ last_call' = [op |-> "continue", user_input |-> user_input,
                            thread_id |-> new_thread_id, fail_at |-> fail_at]
           /\ result' = c.result
           /\ UNCHANGED storage_dir

NextPreferences == PreferencesTurn

SpecPreferences == InitPreferences /\ [][NextPreferences]_vars

\* C31: the stage logic that runs after work_preferences is the materials
\* entry logic of the session's role (dancer_materials for Dancer and
\* Dancer Who Sings, singer_actor_materials for Singer/Actor).
C31_AfterWorkPreferences ==
  ContinuedExisting =>
    \A i \in 1..Len(result.trace) :
      (result.trace[i].node = "work_preferences" /\ ~result.trace[i].raised) =>
        next_executed(i) =
          IF conversation_states[last_call.thread_id].role_type
               \in {"Dancer", "Dancer Who Sings"}
          THEN "dancer_materials"
          ELSE "singer_actor_materials"

\* the last call ran collect_requirements on a submission that
\* validate_material rejects for the first uncollected key
RejectedSubmission ==
  /\ ContinuedExisting
  /\ LET before == prev_states[last_call.thread_id]
         open == first_open(before.requirements_collected)
     IN  /\ before.current_stage = "collect_requirements"
         /\ open # 0
         /\ ~validate_material(before.requirements_collected[open][1],
                               last_call.user_input).valid

\* C32: a turn in which collect_requirements rejects the submission leaves
\* requirements_collected, materials_collected, current_stage and
\* ready_for_submission as they were, appends after the user's utterance one
\* assistant utterance that is the validator's feedback, and the next turn
\* is handled by collect_requirements with the same open key.
C32_RejectionLeavesChecklist ==
  RejectedSubmission =>
    LET before == prev_states[last_call.thread_id]
        after == conversation_states[last_call.thread_id]
        open == first_open(before.requirements_collected)
        v == validate_material(before.requirements_collected[open][1],
                               last_call.user_input)
    IN  /\ after.requirements_collected = before.requirements_collected
        /\ after.materials_collected = before.materials_collected
        /\ after.current_stage = before.current_stage
        /\ after.ready_for_submission = before.ready_for_submission
        /\ after.messages =
             before.messages \o <<HumanMessage(last_call.user_input),
                                  AIMessage(v.feedback)>>
        /\ determine_next_node(after) = "collect_requirements"
        /\ first_open(after.requirements_collected) = open

C32_Witness ==
  /\ RejectedSubmission
  /\ last_call.user_input = "my_cv.pdf"
  /\ collected_keys(prev_states[new_thread_id].requirements_collected) = {"cv"}
  /\ last_message(conversation_states[new_thread_id]).type = "ai"

(***************************************************************************)
(* collect_requirements on a checklist with no open key.  The sessions     *)
(* are those of a user who went through the materials entry stage and had  *)
(* every submission accepted, and the session of a user who never gave     *)
(* the basic information (empty checklist), each with current_stage set to *)
(* "collect_requirements", the stage value for which the driver calls      *)
(* collect_requirements.                                                   *)
(***************************************************************************)
\* human messages a session holds at most before a turn of SpecCollect
MaxCollectHumans == 8

\* route_after_materials_collection of the compiled graph
route_after_materials_collection(state) ==
  LET requirements == state.requirements_collected
  IN  IF Len(requirements) = 0 THEN "collect_requirements"
      ELSE IF \A i \in 1..Len(requirements) : requirements[i][2]
      THEN "research_questions"
      ELSE "collect_requirements"

\* the store after continue_conversation calls for texts[i..] in order
RECURSIVE continue_with(_, _, _)
continue_with(store, texts, i) ==
  IF i > Len(texts) THEN store
  ELSE continue_with(
         continue_conversation(store, texts[i], new_thread_id, 0).store,
         texts, i + 1)

\* a message that enters the materials stage, then an accepted submission
\* for each of the four requirement keys
AllSubmissions ==
  << "hello", "my_cv.pdf", "https://youtu.be/abcdefghijk",
     "https://youtu.be/abcdefghijk", "https://youtu.be/abcdefghijk" >>

all_collected_session(role_text) ==
  LET entry == [t \in {new_thread_id} |-> materials_entry_session(role_text)]
      done == continue_with(entry, AllSubmissions, 1)[new_thread_id]
  IN  [done EXCEPT !.current_stage = "collect_requirements"]

\* user texts that give no basic information, so that no role is asked for
NoInfoTexts == << "hello", "hello", "hello", "hello", "hello", "hello" >>

unclassified_session ==
  LET c0 == initialize_conversation(EmptyStore, TRUE)
      chatted == continue_with(c0.store, NoInfoTexts, 1)[new_thread_id]
  IN  [chatted EXCEPT !.current_stage = "collect_requirements"]

CollectSessions ==
  { all_collected_session(role_text) : role_text \in RoleTexts }
    \cup {unclassified_session}

CollectTexts == {"my_cv.pdf", "https://youtu.be/abcdefghijk", "hello"}

\* llm.invoke works, or fails in the first or second stage logic of the turn
CollectFailAt == 0..2

InitCollect ==
  /\ \E session \in CollectSessions :
       conversation_states = [t \in {new_thread_id} |-> session]
  /\ prev_states = EmptyStore
  /\ workers = NoWorkers
  /\ last_call = NoCall
  /\ result = NoResult
  /\ storage_dir = EmptyDir

CollectTurn ==
  /\ human_count(conversation_states[new_thread_id].messages)
       < MaxCollectHumans
  /\ \E user_input \in CollectTexts, fail_at \in CollectFailAt :
       LET c == continue_conversation(conversation_states, user_input,
                                      new_thread_id, fail_at)
       IN  /\ conversation_states' = c.store
           /\ prev_states' = conversation_states
           /\ UNCHANGED workers
           /\ last_call' = [op |-> "continue", user_input |-> user_input,
                            thread_id |-> new_thread_id, fail_at |-> fail_at]
           /\ result' = c.result
           /\ UNCHANGED storage_dir

NextCollect == CollectTurn

SpecCollect == InitCollect /\ [][NextCollect]_vars

\* the last call ran collect_requirements first, on a checklist that is
\* not empty and has every key collected
SubmissionAfterAllCollected ==
  /\ ContinuedExisting
  /\ Len(result.trace) >= 1
  /\ result.trace[1].node = "collect_requirements"
  /\ LET requirements ==
           prev_states[last_call.thread_id].requirements_collected
     IN  Len(requirements) > 0 /\ first_open(requirements) = 0

FeedbackWords(feedback) ==
  CASE feedback = "CV format accepted" -> {"accepted"}
    [] feedback = "CV submission noted" -> {}
    [] feedback = "CV must be in PDF or Word format" -> {"pdf", "word"}
    [] OTHER -> {}

\* C34: the feedback of validate_cv contains "accepted" when the text is
\* accepted, and names the PDF / Word format rule when it is rejected.
C34_CvFeedbackMatchesVerdict ==
  last_call.op = "validate_cv" =>
    LET v == result.returned[1]
    IN  IF v.valid
        THEN "accepted" \in FeedbackWords(v.feedback)
        ELSE {"pdf", "word"} \subseteq FeedbackWords(v.feedback)

(***************************************************************************)
(* The compiled stage graph: its nodes, static edges and routing           *)
(* functions.  A run starts at START on a session with a given message     *)
(* history and executes one node per step; no user input arrives during    *)
(* the run.  A node whose llm.invoke raises ends the run.                  *)
(***************************************************************************)
\* node executions of one graph run that are followed
MaxGraphSteps == 20

route_after_role_classification(state) ==
  CASE state.role_type = "Dancer" -> "dancer_requirements"
    [] state.role_type = "Dancer Who Sings" -> "dancer_who_sings_requirements"
    [] state.role_type = "Singer/Actor" -> "singer_actor_requirements"
    [] OTHER -> "request_role_clarification"

route_after_spotlight_check(state) ==
  IF state.has_spotlight = "True" THEN "collect_spotlight_link"
  ELSE "representation_check"

route_after_representation_check(state) ==
  IF state.has_representation = "True" THEN "collect_representation_details"
  ELSE "work_preferences"

route_after_work_preferences(state) ==
  IF state.role_type \in {"Dancer", "Dancer Who Sings"} THEN "dancer_materials"
  ELSE IF state.role_type = "Singer/Actor" THEN "singer_actor_materials"
  ELSE "final_questions"

\* builder.add_node: the names of the graph's nodes
GraphNodes ==
  { "welcome", "collect_basic_info", "classify_role",
    "request_role_clarification", "dancer_requirements",
    "dancer_who_sings_requirements", "singer_actor_requirements",
    "spotlight_check", "collect_spotlight_link", "representation_check",
    "collect_representation_details", "work_preferences", "dancer_materials",
    "singer_actor_materials", "collect_requirements",
    "continue_materials_collection", "research_questions", "final_questions" }

\* builder.add_edge / add_conditional_edges: the node that follows `node`
\* when `node` has returned `state`
graph_successor(node, state) ==
  CASE node = "START" -> "welcome"
    [] node = "welcome" -> "collect_basic_info"
    [] node = "collect_basic_info" -> "classify_role"
    [] node = "classify_role" -> route_after_role_classification(state)
    [] node = "request_role_clarification" -> "classify_role"
    [] node \in { "dancer_requirements", "dancer_who_sings_requirements",
                  "singer_actor_requirements" } -> "spotlight_check"
    [] node = "spotlight_check" -> route_after_spotlight_check(state)
    [] node = "collect_spotlight_link" -> "representation_check"
    [] node = "representation_check" -> route_after_representation_check(state)
    [] node = "collect_representation_details" -> "work_preferences"
    [] node = "work_preferences" -> route_after_work_preferences(state)
    [] node \in {"dancer_materials", "singer_actor_materials"} ->
         route_after_materials_collection(state)
    [] node = "continue_materials_collection" -> "collect_requirements"
    [] node = "collect_requirements" -> "research_questions"
    [] node = "research_questions" -> "final_questions"
    [] node = "final_questions" -> "END"

\* the function builder.add_node registers under the node's name
graph_node(node, state, llm_ok) ==
  IF node = "welcome" THEN welcome_node(state, llm_ok)
  ELSE execute_node(node, state, llm_ok)

GraphTexts ==
  { "hello", FullInfo, FullInfo \o " dancer", FullInfo \o " singer",
    FullInfo \o " dancer who sings", "I love to perform", "yes",
    "my_cv.pdf" }

\* the message history the run is given: empty, or one user message
GraphHistories == {<<>>} \cup { <<HumanMessage(text)>> : text \in GraphTexts }

GraphRun == "graph"

InitGraph ==
  /\ \E history \in GraphHistories :
       conversation_states =
         [t \in {new_thread_id} |-> [initial_state EXCEPT !.messages = history]]
  /\ prev_states = conversation_states
  /\ workers = [g \in {GraphRun} |-> [pc |-> graph_successor("START", initial_state)]]
  /\ last_call = [NoCall EXCEPT !.op = "graph"]
  /\ result = NoResult
  /\ storage_dir = EmptyDir

\* one node execution, then the edge or routing function out of the node
GraphStep ==
  /\ workers[GraphRun].pc \in GraphNodes
  /\ Len(result.trace) < MaxGraphSteps
  /\ \E llm_ok \in BOOLEAN :
       LET node == workers[GraphRun].pc
           state == conversation_states[new_thread_id]
       IN  \E r \in {graph_node(node, state, llm_ok)} :
             /\ conversation_states' =
                  [conversation_states EXCEPT ![new_thread_id] = r.state]
             /\ workers' =
                  [workers EXCEPT ![GraphRun].pc =
                     IF r.raised THEN "raised"
                     ELSE graph_successor(node, r.state)]
             /\ result' =
                  [result EXCEPT
                     !.raised = r.raised,
                     !.executed = @ + 1,
                     !.trace = Append(@, executed_node(node, state.current_stage, r))]
  /\ UNCHANGED <<prev_states, last_call, storage_dir>>

NextGraph == GraphStep

SpecGraph == InitGraph /\ [][NextGraph]_vars

\* C35: a run of the graph on a fixed history that has not reached END has
\* executed fewer nodes than the graph has, so that no node is entered a
\* second time and END is reached after at most that many executions.
C35_GraphRunReachesEnd ==
  (last_call.op = "graph" /\ GraphRun \in DOMAIN workers) =>
    Len(result.trace) <= Cardinality(GraphNodes)

\* the checklist is not empty and every key of it is collected
AllCollected(requirements) ==
  /\ Len(requirements) > 0
  /\ \A i \in 1..Len(requirements) : requirements[i][2]

APOLOGY ==
  "I apologize, but I'm having trouble processing that. Could you please rephrase?"

\* what one attempt yields for a prompt
AttemptOutcomes == {"content", "plain", "raise"}

GeneratePrompts == {"hello", "all of them", "", "yes", "no", FullInfo}

\* str(response.content) if hasattr(response, 'content') else str(response)
response_text(outcome, prompt) ==
  IF outcome = "content" THEN "<content for: " \o prompt \o ">"
  ELSE "<response for: " \o prompt \o ">"

\* agenerate_response whose fallback attempt is not guarded
agenerate_response_unguarded(prompt, has_ainvoke, first, second) ==
  IF first # "raise"
  THEN [raised |-> FALSE, returned |-> <<response_text(first, prompt)>>,
        executed |-> 1, calls |-> <<IF has_ainvoke THEN "ainvoke" ELSE "invoke">>]
  ELSE [raised |-> second = "raise",
        returned |-> IF second = "raise" THEN <<>>
                     ELSE <<response_text(second, prompt)>>,
        executed |-> 2,
        calls |-> <<IF has_ainvoke THEN "ainvoke" ELSE "invoke", "invoke">>]

\* agenerate_response: the returned text, the number of attempts made and
\* the capability each attempt called
agenerate_response(prompt, has_ainvoke, first, second) ==
  IF first # "raise"
  THEN [raised |-> FALSE, returned |-> <<response_text(first, prompt)>>,
        executed |-> 1, calls |-> <<IF has_ainvoke THEN "ainvoke" ELSE "invoke">>]
  ELSE [raised |-> FALSE,
        returned |-> IF second = "raise" THEN <<APOLOGY>>
                     ELSE <<response_text(second, prompt)>>,
        executed |-> 2,
        calls |-> <<IF has_ainvoke THEN "ainvoke" ELSE "invoke", "invoke">>]

sync_generate_response(prompt, first) ==
  [raised |-> FALSE,
   returned |-> IF first = "raise" THEN <<APOLOGY>>
                ELSE <<response_text(first, prompt)>>,
   executed |-> 1, calls |-> <<"invoke">>]

NoGenerateCall ==
  [op |-> "none", prompt |-> "", has_ainvoke |-> FALSE,
   first |-> "plain", second |-> "plain"]

InitGenerate ==
  /\ conversation_states = EmptyStore
  /\ prev_states = EmptyStore
  /\ workers = NoWorkers
  /\ last_call = NoGenerateCall
  /\ result = [raised |-> FALSE, returned |-> <<>>, executed |-> 0,
               calls |-> <<>>]
  /\ storage_dir = EmptyDir

AGenerateResponse ==
  \E prompt \in GeneratePrompts, has_ainvoke \in BOOLEAN,
     first \in AttemptOutcomes, second \in AttemptOutcomes :
    /\ last_call' = [op |-> "agenerate_response", prompt |-> prompt,
                     has_ainvoke |-> has_ainvoke, first |-> first,
                     second |-> second]
    /\ result' = agenerate_response(prompt, has_ainvoke, first, second)
    /\ UNCHANGED <<conversation_states, prev_states, workers, storage_dir>>

SyncGenerateResponse ==
  \E prompt \in GeneratePrompts, first \in AttemptOutcomes :
    /\ last_call' = [op |-> "sync_generate_response", prompt |-> prompt,
                     has_ainvoke |-> FALSE, first |-> first, second |-> "plain"]
    /\ result' = sync_generate_response(prompt, first)
    /\ UNCHANGED <<conversation_states, prev_states, workers, storage_dir>>

NextGenerate == AGenerateResponse \/ SyncGenerateResponse

SpecGenerate == InitGenerate /\ [][NextGenerate]_vars

\* C37: agenerate_response and sync_generate_response return a text and
\* never raise; agenerate_response makes one attempt, and exactly one more
\* when the first raised, returning the apology when that one raised too;
\* sync_generate_response makes one attempt and returns the apology when
\* it raised.
C37_SingleFallbackNeverRaises ==
  /\ last_call.op = "agenerate_response" =>
       /\ ~result.raised
       /\ Len(result.returned) = 1
       /\ result.executed = IF last_call.first = "raise" THEN 2 ELSE 1
       /\ (last_call.first = "raise" /\ last_call.second = "raise") =>
            result.returned[1] = APOLOGY
       /\ (last_call.first = "raise" /\ last_call.second # "raise") =>
            result.returned[1] = response_text(last_call.second, last_call.prompt)
       /\ last_call.first # "raise" =>
            result.returned[1] = response_text(last_call.first, last_call.prompt)
  /\ last_call.op = "sync_generate_response" =>
       /\ ~result.raised
       /\ Len(result.returned) = 1
       /\ result.executed = 1
       /\ result.returned[1] =
            IF last_call.first = "raise" THEN APOLOGY
            ELSE response_text(last_call.first, last_call.prompt)

C37_Witness ==
  /\ last_call.op = "agenerate_response"
  /\ last_call.first = "raise"
  /\ last_call.second = "raise"
  /\ result.executed = 2
  /\ result.returned = <<APOLOGY>>

(***************************************************************************)
(* AsyncStateManager.asave_state of src/async_handlers.py over             *)
(* ConversationPersistence.save_state.  The executor either runs the       *)
(* save or raises before running it.                                       *)
(***************************************************************************)
\* "ok": run_in_executor runs save_state; "raises": it raises instead
ExecutorOutcomes == {"ok", "raises"}

\* asave_state: the directory after the call and the returned flag
asave_state(dir, thread_id, state, executor_outcome, save_outcome) ==
  IF executor_outcome = "raises"
  THEN [dir |-> dir, raised |-> FALSE, returned |-> <<FALSE>>,
        logged_error |-> TRUE]
  ELSE LET s == save_state(dir, thread_id, state, save_outcome)
       IN  [dir |-> s.dir, raised |-> FALSE, returned |-> <<~s.raised>>,
            logged_error |-> s.logged_error \/ s.raised]

ASaveState ==
  \E thread_id \in DOMAIN conversation_states,
     executor_outcome \in ExecutorOutcomes, save_outcome \in SaveOutcomes :
    LET c == asave_state(storage_dir, thread_id, conversation_states[thread_id],
                         executor_outcome, save_outcome)
    IN  /\ storage_dir' = c.dir
        /\ UNCHANGED conversation_states
        /\ prev_states' = conversation_states
        /\ UNCHANGED workers
        /\ last_call' = [op |-> "asave", thread_id |-> thread_id,
                         save_outcome |-> save_outcome,
                         executor_outcome |-> executor_outcome,
                         state |-> conversation_states[thread_id]]
        /\ result' = [raised |-> c.raised, returned |-> c.returned,
                      executed |-> 0, logged_error |-> c.logged_error]

NextAsyncState == PersistTurn \/ ASaveState

SpecAsyncState == InitPersist /\ [][NextAsyncState]_vars

\* C38: asave_state returns True only when the file of the thread holds the
\* complete serialized session, and returns False whenever the save
\* failed.
C38_ASaveReportsOutcome ==
  last_call.op = "asave" =>
    /\ result.returned[1] =>
         /\ last_call.thread_id \in DOMAIN storage_dir
         /\ storage_dir[last_call.thread_id] =
              [complete |-> TRUE, data |-> serializable_state(last_call.state)]
    /\ (last_call.executor_outcome = "raises" \/ last_call.save_outcome # "ok") =>
         ~result.returned[1]

\* C39: when a continue_conversation call on an existing session has
\* raised, the session stored for the thread is the one stored before the
\* call.
C39_FailedTurnLeavesStoredSession ==
  (ContinuedExisting /\ result.raised) =>
    conversation_states[last_call.thread_id] = prev_states[last_call.thread_id]

====
